---------------------------- MODULE Spec2Model ----------------------------
(***************************************************************************)
(* Model of the YOUREKA accounting application: the journal entry form and *)
(* its posting (Journal.tsx), the report builders (Reports module,         *)
(* src/unnamed/part_002), the account form (Journal.tsx) and the invoice   *)
(* form (Invoicing module, src/unnamed/part_003).                          *)
(*                                                                         *)
(* Encodings.                                                              *)
(*  - Money is an integer number of half cents (0.005), so that the        *)
(*    0.01 tolerance of isBalanced is 2 units and amounts closer than the  *)
(*    tolerance exist.  Arithmetic is exact: the rounding of IEEE doubles  *)
(*    is outside the model.                                                *)
(*  - The text of a numeric form field is <<>> (the empty string) or       *)
(*    <<n>> (a decimal text denoting n units); Unparsable is a text that    *)
(*    parseFloat maps to NaN.                                              *)
(*  - An id is a positive integer; the empty string id is NoId.            *)
(*  - An ISO date is an integer; integer order is the lexicographic order  *)
(*    of the date strings.                                                 *)
(*  - Only the active module is mounted (page.tsx): the local state of a   *)
(*    module that is not mounted is kept at its initial value, and each    *)
(*    specification enables a handler only while its module is active.     *)
(*  - Submit handlers are modelled for every draft the change handlers     *)
(*    can produce; the disabled attribute of a submit button is a guard.   *)
(***************************************************************************)
EXTENDS Integers, Sequences, FiniteSets, TLC

VARIABLES
    accounts,         \* store: Account[] in display order
    journalEntries,   \* store: JournalEntry[] in insertion order
    nextAccountId,    \* store: the next fresh account id
    entryForm,        \* Journal: useState entryForm
    entryError,       \* Journal: useState entryError
    isSubmitting,     \* Journal: useState isSubmitting
    pendingEntry,     \* Journal: the addJournalEntry call awaited, or <<>>
    accountForm,      \* Journal: useState accountForm
    accountError,     \* Journal: useState accountError
    editingAccountId, \* Journal: useState editingAccountId
    activeModule,     \* page.tsx: useState activeModule
    parties,          \* store: Party[]
    inventoryItems,   \* store: InventoryItem[]
    invoices,         \* store: Invoice[] in insertion order
    draft,            \* Invoicing: useState draft
    error,            \* Invoicing: useState error
    isGenerating,     \* Invoicing: useState isGenerating
    pendingInvoice,   \* Invoicing: the handleSubmit call awaiting, or <<>>
    warehouses,       \* store: Warehouse[]
    nextWarehouseId,  \* store: the next fresh warehouse id
    inventoryLedger,  \* store: InventoryLedgerEntry[] in insertion order
    inventoryForm,    \* Inventory: useState inventoryForm
    inventoryError,   \* Inventory: useState inventoryError
    editingItemId,    \* Inventory: useState editingItemId
    adjustments       \* Inventory: useState adjustments, a map from item-warehouse keys

storeVars == <<accounts, journalEntries, nextAccountId>>
entryVars == <<entryForm, entryError, isSubmitting, pendingEntry>>
accountFormVars == <<accountForm, accountError, editingAccountId>>
journalVars == <<storeVars, entryVars, accountFormVars>>
salesVars == <<parties, inventoryItems, invoices>>
invoicingVars == <<draft, error, isGenerating, pendingInvoice>>
stockVars == <<warehouses, nextWarehouseId, inventoryLedger>>
inventoryFormVars == <<inventoryForm, inventoryError, editingItemId, adjustments>>
inventoryVars == <<stockVars, inventoryFormVars>>
outsideJournal == <<activeModule, salesVars, invoicingVars, inventoryVars>>
vars == <<journalVars, activeModule, salesVars, invoicingVars, inventoryVars>>

---------------------------------------------------------------------------
(* Bounds *)

MaxLines == 3        \* most lines a journal draft is grown to
MaxAmount == 2       \* largest amount typed into a debit or credit field
MaxPosts == 1        \* most journal entries stored in a Journal session
MaxAccountId == 3    \* largest account id the store hands out
MaxEntries == 2      \* most journal entries stored when reports are built
MaxDate == 2         \* entry dates are 1..MaxDate
MaxInvoiceLines == 2 \* most lines an invoice draft is grown to
MaxInvoices == 1     \* most invoices stored
MaxParties == 1      \* most parties stored
MaxItems == 1        \* most inventory items stored
MaxDashboardDate == 3     \* dashboard entry dates are 1..MaxDashboardDate
MaxDashboardEntries == 9  \* most journal entries stored when the dashboard is built
MaxWarehouses == 2   \* largest warehouse id the store hands out
MaxAdjustments == 2  \* most stock adjustments recorded in the inventory ledger

---------------------------------------------------------------------------
(* Values *)

Null == "null"
NoId == 0
EmptyText == <<>>
Text(n) == <<n>>
Unparsable == <<0, 0>>
IsNaNText(text) == Len(text) > 1

ACCOUNT_TYPES == <<"Asset", "Liability", "Equity", "Revenue", "Expense">>
AccountTypes == {ACCOUNT_TYPES[i] : i \in 1..Len(ACCOUNT_TYPES)}

Today == 2

\* parseFloat(text || '0')
ParseOrZero(text) == IF text = EmptyText THEN 0 ELSE text[1]

Abs(x) == IF x < 0 THEN -x ELSE x

RECURSIVE SumSeq(_)
SumSeq(s) == IF s = <<>> THEN 0 ELSE s[1] + SumSeq(Tail(s))

SeqMap(Op(_), s) == [i \in 1..Len(s) |-> Op(s[i])]

RemoveAt(s, i) == [k \in 1..(Len(s) - 1) |-> IF k < i THEN s[k] ELSE s[k + 1]]

---------------------------------------------------------------------------
(* Journal: the entry form *)

createEmptyLine == [accountId |-> NoId, debit |-> EmptyText, credit |-> EmptyText]

EmptyEntryForm == [date |-> Today, lines |-> <<createEmptyLine, createEmptyLine>>]

LineDebit(line) == ParseOrZero(line.debit)
LineCredit(line) == ParseOrZero(line.credit)

debitTotal(form) == SumSeq(SeqMap(LineDebit, form.lines))
creditTotal(form) == SumSeq(SeqMap(LineCredit, form.lines))

Tolerance == 2

isBalancedLoose(form) == Abs(debitTotal(form) - creditTotal(form)) <= Tolerance
isBalanced(form) == Abs(debitTotal(form) - creditTotal(form)) < Tolerance

hasAccountGaps(form) == \E i \in 1..Len(form.lines) : form.lines[i].accountId = NoId

PayloadLine(line) ==
    [accountId |-> line.accountId, debit |-> LineDebit(line), credit |-> LineCredit(line)]

EntryPayload(form) == [date |-> form.date, lines |-> SeqMap(PayloadLine, form.lines)]

\* accounts.find((acc) => acc.name.toLowerCase() === accountName.toLowerCase())
Lower(name) ==
    CASE name = "Cash" -> "cash"
      [] name = "CASH" -> "cash"
      [] name = "Sales" -> "sales"
      [] OTHER -> name

FindFirst(s, Test(_)) ==
    IF \E i \in 1..Len(s) : Test(s[i])
    THEN LET i == CHOOSE i \in 1..Len(s) : Test(s[i]) /\ \A j \in 1..(i - 1) : ~Test(s[j])
         IN <<s[i]>>
    ELSE <<>>

AccountByName(accs, typed) ==
    LET Matches(acc) == Lower(acc.name) = Lower(typed) IN FindFirst(accs, Matches)

AccountById(accs, id) ==
    LET Matches(acc) == acc.id = id IN FindFirst(accs, Matches)

\* handleLineChange(id, field, value): the line of that tempId gets the field
SetLineField(form, i, field, value) ==
    [form EXCEPT !.lines[i] = [@ EXCEPT ![field] = value]]

AccountInputChange(i, typed) ==
    /\ i \in 1..Len(entryForm.lines)
    /\ LET selected == AccountByName(accounts, typed)
       IN entryForm' = SetLineField(entryForm, i, "accountId",
                                    IF selected # <<>> THEN selected[1].id ELSE NoId)
    /\ UNCHANGED <<outsideJournal, entryError, isSubmitting, pendingEntry, storeVars, accountFormVars>>

DebitInputChangeKeepsCredit(i, text) ==
    /\ i \in 1..Len(entryForm.lines)
    /\ entryForm' = SetLineField(entryForm, i, "debit", text)
    /\ UNCHANGED <<outsideJournal, entryError, isSubmitting, pendingEntry, storeVars, accountFormVars>>

DebitInputChange(i, text) ==
    /\ i \in 1..Len(entryForm.lines)
    /\ LET typed == SetLineField(entryForm, i, "debit", text)
       IN entryForm' = IF ParseOrZero(text) > 0
                       THEN SetLineField(typed, i, "credit", EmptyText)
                       ELSE typed
    /\ UNCHANGED <<outsideJournal, entryError, isSubmitting, pendingEntry, storeVars, accountFormVars>>

CreditInputChange(i, text) ==
    /\ i \in 1..Len(entryForm.lines)
    /\ LET typed == SetLineField(entryForm, i, "credit", text)
       IN entryForm' = IF ParseOrZero(text) > 0
                       THEN SetLineField(typed, i, "debit", EmptyText)
                       ELSE typed
    /\ UNCHANGED <<outsideJournal, entryError, isSubmitting, pendingEntry, storeVars, accountFormVars>>

handleAddLine ==
    /\ Len(entryForm.lines) < MaxLines
    /\ entryForm' = [entryForm EXCEPT !.lines = Append(@, createEmptyLine)]
    /\ UNCHANGED <<outsideJournal, entryError, isSubmitting, pendingEntry, storeVars, accountFormVars>>

\* handleRemoveLine with the minimum one line lower
handleRemoveLineBelowTwo(i) ==
    /\ i \in 1..Len(entryForm.lines)
    /\ entryForm' = [entryForm EXCEPT
                        !.lines = IF Len(@) < 2 THEN @ ELSE RemoveAt(@, i)]
    /\ UNCHANGED <<outsideJournal, entryError, isSubmitting, pendingEntry, storeVars, accountFormVars>>

handleRemoveLine(i) ==
    /\ i \in 1..Len(entryForm.lines)
    /\ entryForm' = [entryForm EXCEPT
                        !.lines = IF Len(@) <= 2 THEN @ ELSE RemoveAt(@, i)]
    /\ UNCHANGED <<outsideJournal, entryError, isSubmitting, pendingEntry, storeVars, accountFormVars>>

\* handleEntrySubmit up to its await: validation, then the addJournalEntry call
handleEntrySubmit ==
    /\ ~isSubmitting
    /\ IF ~isBalanced(entryForm)
       THEN /\ entryError' = "Journal entry must be balanced. Adjust debit and credit values."
            /\ UNCHANGED <<isSubmitting, pendingEntry>>
       ELSE IF hasAccountGaps(entryForm)
       THEN /\ entryError' = "Every line requires an account selection."
            /\ UNCHANGED <<isSubmitting, pendingEntry>>
       ELSE /\ Len(journalEntries) < MaxPosts
            /\ entryError' = Null
            /\ isSubmitting' = TRUE
            /\ pendingEntry' = <<EntryPayload(entryForm)>>
    /\ UNCHANGED <<outsideJournal, entryForm, storeVars, accountFormVars>>

\* the store's addJournalEntry
addJournalEntry(entries, payload) == Append(entries, payload)

\* the awaited addJournalEntry resolves: the entry is stored, the form reset
EntrySubmitResolved ==
    /\ pendingEntry # <<>>
    /\ journalEntries' = addJournalEntry(journalEntries, pendingEntry[1])
    /\ entryForm' = EmptyEntryForm
    /\ isSubmitting' = FALSE
    /\ pendingEntry' = <<>>
    /\ UNCHANGED <<outsideJournal, entryError, accounts, nextAccountId, accountFormVars>>

\* the rejection without the finally block: isSubmitting stays set
EntrySubmitRejectedNoFinally ==
    /\ pendingEntry # <<>>
    /\ entryError' = "Unable to save entry."
    /\ pendingEntry' = <<>>
    /\ UNCHANGED <<outsideJournal, entryForm, isSubmitting, storeVars, accountFormVars>>

\* the awaited addJournalEntry rejects: the error is shown, the draft kept
EntrySubmitRejected ==
    /\ pendingEntry # <<>>
    /\ entryError' = "Unable to save entry."
    /\ isSubmitting' = FALSE
    /\ pendingEntry' = <<>>
    /\ UNCHANGED <<outsideJournal, entryForm, storeVars, accountFormVars>>

\* the store's deleteJournalEntry, from the Delete button of the listing
deleteJournalEntry(i) ==
    /\ i \in 1..Len(journalEntries)
    /\ journalEntries' = RemoveAt(journalEntries, i)
    /\ UNCHANGED <<outsideJournal, accounts, nextAccountId, entryVars, accountFormVars>>

---------------------------------------------------------------------------
(* Journal: the account form and the accounts table *)

EmptyAccountForm == [name |-> "", type |-> "Asset"]

\* name.trim() over the names the model types: " " is the blank name
Trim(name) == IF name = " " THEN "" ELSE name

\* the store's addAccount, updateAccount and deleteAccount
addAccount(accs, id, payload) ==
    Append(accs, [id |-> id, name |-> payload.name, type |-> payload.type,
                  isSystem |-> payload.isSystem])

updateAccount(accs, id, changes) ==
    [i \in 1..Len(accs) |->
        IF accs[i].id = id
        THEN [accs[i] EXCEPT !.name = changes.name, !.type = changes.type]
        ELSE accs[i]]

deleteAccount(accs, id) ==
    LET Kept(acc) == acc.id # id IN SelectSeq(accs, Kept)

AccountNameChange(name) ==
    /\ accountForm' = [accountForm EXCEPT !.name = name]
    /\ UNCHANGED <<outsideJournal, accountError, editingAccountId, storeVars, entryVars>>

AccountTypeChange(type) ==
    /\ accountForm' = [accountForm EXCEPT !.type = type]
    /\ UNCHANGED <<outsideJournal, accountError, editingAccountId, storeVars, entryVars>>

\* what handleAccountSubmit does to the store for a form that passed validation
AccountSubmitStore(accs, id, editing, form) ==
    IF editing # NoId
    THEN updateAccount(accs, editing, form)
    ELSE addAccount(accs, id, [name |-> form.name, type |-> form.type, isSystem |-> FALSE])

nameIsBlank(form) == Trim(form.name) = ""

handleAccountSubmit ==
    IF nameIsBlank(accountForm)
    THEN /\ accountError' = "Account name is required."
         /\ UNCHANGED <<outsideJournal, accountForm, editingAccountId, storeVars, entryVars>>
    ELSE /\ editingAccountId = NoId => nextAccountId <= MaxAccountId
         /\ accounts' = AccountSubmitStore(accounts, nextAccountId, editingAccountId, accountForm)
         /\ nextAccountId' = IF editingAccountId = NoId THEN nextAccountId + 1 ELSE nextAccountId
         /\ accountError' = Null
         /\ accountForm' = EmptyAccountForm
         /\ editingAccountId' = NoId
         /\ UNCHANGED <<outsideJournal, journalEntries, entryVars>>

beginAccountEdit(id) ==
    /\ AccountById(accounts, id) # <<>>
    /\ LET account == AccountById(accounts, id)[1]
       IN accountForm' = [name |-> account.name, type |-> account.type]
    /\ editingAccountId' = id
    /\ UNCHANGED <<outsideJournal, accountError, storeVars, entryVars>>

CancelAccountEdit ==
    /\ editingAccountId # NoId
    /\ editingAccountId' = NoId
    /\ accountForm' = EmptyAccountForm
    /\ UNCHANGED <<outsideJournal, accountError, storeVars, entryVars>>

canDeleteAnyAccount(account) == TRUE

\* the Delete button of the accounts table, rendered for !account.isSystem
canDeleteAccount(account) == ~account.isSystem

DeleteAccountClick(id) ==
    /\ AccountById(accounts, id) # <<>>
    /\ canDeleteAccount(AccountById(accounts, id)[1])
    /\ accounts' = deleteAccount(accounts, id)
    /\ UNCHANGED <<outsideJournal, journalEntries, nextAccountId, entryVars, accountFormVars>>

---------------------------------------------------------------------------
(* Reports: the report builders *)

InRangeOpenEnd(entry, fromDate, toDate) == entry.date >= fromDate /\ entry.date < toDate
InRange(entry, fromDate, toDate) == entry.date >= fromDate /\ entry.date <= toDate

FilterByRangeKeepsAll(entries, fromDate, toDate) == entries

FilterByRange(entries, fromDate, toDate) ==
    LET Keep(entry) == InRange(entry, fromDate, toDate) IN SelectSeq(entries, Keep)

\* Map<string, number>: a function from the keys set so far
MapGet(map, key) == IF key \in DOMAIN map THEN map[key] ELSE 0
MapSet(map, key, value) ==
    [k \in (DOMAIN map) \cup {key} |-> IF k = key THEN value ELSE map[k]]

BalanceStepOverwrite(map, line) ==
    MapSet(map, line.accountId, line.debit - line.credit)

BalanceStep(map, line) ==
    MapSet(map, line.accountId, MapGet(map, line.accountId) + line.debit - line.credit)

RECURSIVE BalanceLines(_, _)
BalanceLines(map, lines) ==
    IF lines = <<>> THEN map
    ELSE BalanceLines(BalanceStep(map, lines[1]), Tail(lines))

RECURSIVE BalanceEntries(_, _)
BalanceEntries(map, entries) ==
    IF entries = <<>> THEN map
    ELSE BalanceEntries(BalanceLines(map, entries[1].lines), Tail(entries))

computeAccountBalances(entries) == BalanceEntries(<<>>, entries)

OfType(accs, type) == LET Is(acc) == acc.type = type IN SelectSeq(accs, Is)

Amounts(items) == [i \in 1..Len(items) |-> items[i].amount]

pnlRevenuesUnflipped(accs, balances) ==
    LET Item(acc) == [account |-> acc, amount |-> MapGet(balances, acc.id)]
    IN SeqMap(Item, OfType(accs, "Revenue"))

pnlRevenues(accs, balances) ==
    LET Item(acc) == [account |-> acc, amount |-> -MapGet(balances, acc.id)]
    IN SeqMap(Item, OfType(accs, "Revenue"))

pnlExpenses(accs, balances) ==
    LET Item(acc) == [account |-> acc, amount |-> MapGet(balances, acc.id)]
    IN SeqMap(Item, OfType(accs, "Expense"))

buildPnl(accs, balances) ==
    LET revenues == pnlRevenues(accs, balances)
        expenses == pnlExpenses(accs, balances)
        revenueTotal == SumSeq(Amounts(revenues))
        expenseTotal == SumSeq(Amounts(expenses))
    IN [revenueTotal |-> revenueTotal,
        expenseTotal |-> expenseTotal,
        grossProfit |-> revenueTotal - expenseTotal,
        netProfit |-> revenueTotal - expenseTotal,
        revenueAccounts |-> revenues,
        expenseAccounts |-> expenses]

balanceAssets(accs, balances) ==
    LET Item(acc) == [account |-> acc, amount |-> MapGet(balances, acc.id)]
    IN SeqMap(Item, OfType(accs, "Asset"))

balanceLiabilitiesUnflipped(accs, balances) ==
    LET Item(acc) == [account |-> acc, amount |-> MapGet(balances, acc.id)]
    IN SeqMap(Item, OfType(accs, "Liability"))

balanceLiabilities(accs, balances) ==
    LET Item(acc) == [account |-> acc, amount |-> -MapGet(balances, acc.id)]
    IN SeqMap(Item, OfType(accs, "Liability"))

balanceEquityUnflipped(accs, balances) ==
    LET Item(acc) == [account |-> acc, amount |-> MapGet(balances, acc.id)]
    IN SeqMap(Item, OfType(accs, "Equity"))

balanceEquity(accs, balances) ==
    LET Item(acc) == [account |-> acc, amount |-> -MapGet(balances, acc.id)]
    IN SeqMap(Item, OfType(accs, "Equity"))

buildBalanceSheet(accs, balances) ==
    LET assets == balanceAssets(accs, balances)
        liabilities == balanceLiabilities(accs, balances)
        equity == balanceEquity(accs, balances)
    IN [assets |-> assets,
        liabilities |-> liabilities,
        equity |-> equity,
        totals |-> [assetTotal |-> SumSeq(Amounts(assets)),
                    liabilityTotal |-> SumSeq(Amounts(liabilities)),
                    equityTotal |-> SumSeq(Amounts(equity))]]

trialBalanceLineSigned(acc, balances) ==
    LET balance == MapGet(balances, acc.id)
    IN [account |-> acc,
        debit |-> IF balance > 0 THEN balance ELSE 0,
        credit |-> IF balance < 0 THEN balance ELSE 0]

trialBalanceLine(acc, balances) ==
    LET balance == MapGet(balances, acc.id)
    IN [account |-> acc,
        debit |-> IF balance > 0 THEN balance ELSE 0,
        credit |-> IF balance < 0 THEN -balance ELSE 0]

buildTrialBalance(accs, balances) ==
    LET lines == [i \in 1..Len(accs) |-> trialBalanceLine(accs[i], balances)]
    IN [lines |-> lines,
        totalDebit |-> SumSeq([i \in 1..Len(lines) |-> lines[i].debit]),
        totalCredit |-> SumSeq([i \in 1..Len(lines) |-> lines[i].credit])]

\* entries.filter(...): a new array is built, the array passed in is left
reportArrays(entries, fromDate, toDate) ==
    [entries |-> entries, filteredEntries |-> FilterByRange(entries, fromDate, toDate)]

buildReports(entries, accs, fromDate, toDate) ==
    LET filteredEntries == reportArrays(entries, fromDate, toDate).filteredEntries
        balances == computeAccountBalances(filteredEntries)
    IN [pnl |-> buildPnl(accs, balances),
        balanceSheet |-> buildBalanceSheet(accs, balances),
        trialBalance |-> buildTrialBalance(accs, balances)]

RECURSIVE InsertByDateBeforeTies(_, _)
InsertByDateBeforeTies(sorted, entry) ==
    IF sorted = <<>> THEN <<entry>>
    ELSE IF sorted[Len(sorted)].date < entry.date THEN Append(sorted, entry)
    ELSE Append(InsertByDateBeforeTies(SubSeq(sorted, 1, Len(sorted) - 1), entry),
                sorted[Len(sorted)])

\* Array.prototype.sort with (a, b) => a.date.localeCompare(b.date): stable
RECURSIVE InsertByDate(_, _)
InsertByDate(sorted, entry) ==
    IF sorted = <<>> THEN <<entry>>
    ELSE IF sorted[Len(sorted)].date <= entry.date THEN Append(sorted, entry)
    ELSE Append(InsertByDate(SubSeq(sorted, 1, Len(sorted) - 1), entry), sorted[Len(sorted)])

RECURSIVE SortFrom(_, _)
SortFrom(sorted, rest) ==
    IF rest = <<>> THEN sorted ELSE SortFrom(InsertByDate(sorted, rest[1]), Tail(rest))

SortByDate(entries) == SortFrom(<<>>, entries)

LedgerRow(account, entry, line, balance) ==
    [accountId |-> account.id, date |-> entry.date,
     debit |-> line.debit, credit |-> line.credit, balance |-> balance]

RECURSIVE LedgerLinesNoCarry(_, _, _, _)
LedgerLinesNoCarry(ledger, account, entry, lines) ==
    IF lines = <<>> THEN ledger
    ELSE LET balance == lines[1].debit - lines[1].credit
         IN LedgerLinesNoCarry(Append(ledger, LedgerRow(account, entry, lines[1], balance)),
                               account, entry, Tail(lines))

RECURSIVE LedgerLines(_, _, _, _)
LedgerLines(ledger, account, entry, lines) ==
    IF lines = <<>> THEN ledger
    ELSE LET balance == (IF ledger = <<>> THEN 0 ELSE ledger[Len(ledger)].balance)
                        + lines[1].debit - lines[1].credit
         IN LedgerLines(Append(ledger, LedgerRow(account, entry, lines[1], balance)),
                        account, entry, Tail(lines))

RECURSIVE LedgerEntries(_, _, _)
LedgerEntries(ledger, account, entries) ==
    IF entries = <<>> THEN ledger
    ELSE LET OfAccount(line) == line.accountId = account.id
         IN LedgerEntries(
                LedgerLines(ledger, account, entries[1], SelectSeq(entries[1].lines, OfAccount)),
                account, Tail(entries))

\* entries.filter(...).sort(...): the new array of the filter is the one sorted
ledgerArrays(entries, fromDate, toDate) ==
    [entries |-> entries,
     relevantEntries |-> SortByDate(FilterByRange(entries, fromDate, toDate))]

buildLedgerEntries(entries, account, fromDate, toDate) ==
    LedgerEntries(<<>>, account, ledgerArrays(entries, fromDate, toDate).relevantEntries)

---------------------------------------------------------------------------
(* Dashboard: buildDashboardMetrics.  The month key of a date is           *)
(* date.slice(0, 7): the dates 2k-1 and 2k are the days of month k.  The   *)
(* margin is a division of doubles: it is kept as the fraction num/den, a  *)
(* den of 0 standing for the NaN or Infinity of a division by zero.        *)

DaysPerMonth == 2
RecentCount == 8

monthKey(date) == (date + DaysPerMonth - 1) \div DaysPerMonth

\* Array.prototype.sort with (a, b) => b.date.localeCompare(a.date): stable
RECURSIVE InsertByDateDesc(_, _)
InsertByDateDesc(sorted, entry) ==
    IF sorted = <<>> THEN <<entry>>
    ELSE IF sorted[Len(sorted)].date >= entry.date THEN Append(sorted, entry)
    ELSE Append(InsertByDateDesc(SubSeq(sorted, 1, Len(sorted) - 1), entry),
                sorted[Len(sorted)])

RECURSIVE SortDescFrom(_, _)
SortDescFrom(sorted, rest) ==
    IF rest = <<>> THEN sorted
    ELSE SortDescFrom(InsertByDateDesc(sorted, rest[1]), Tail(rest))

SortByDateDesc(entries) == SortDescFrom(<<>>, entries)

\* [...entries].sort(...): the copy is sorted, the array passed in is left
dashboardArrays(entries) ==
    [entries |-> entries, sortedEntries |-> SortByDateDesc(entries)]

IdsOfType(accs, type) == {accs[i].id : i \in {k \in 1..Len(accs) : accs[k].type = type}}

RECURSIVE entryRevenueDebitSide(_, _)
entryRevenueDebitSide(lines, revenueAccounts) ==
    IF lines = <<>> THEN 0
    ELSE (IF lines[1].accountId \in revenueAccounts
          THEN lines[1].debit - lines[1].credit ELSE 0)
         + entryRevenueDebitSide(Tail(lines), revenueAccounts)

RECURSIVE entryRevenue(_, _)
entryRevenue(lines, revenueAccounts) ==
    IF lines = <<>> THEN 0
    ELSE (IF lines[1].accountId \in revenueAccounts
          THEN lines[1].credit - lines[1].debit ELSE 0)
         + entryRevenue(Tail(lines), revenueAccounts)

RECURSIVE entryExpense(_, _)
entryExpense(lines, expenseAccounts) ==
    IF lines = <<>> THEN 0
    ELSE (IF lines[1].accountId \in expenseAccounts
          THEN lines[1].debit - lines[1].credit ELSE 0)
         + entryExpense(Tail(lines), expenseAccounts)

emptyBucket(key) == [label |-> key, revenue |-> 0, expense |-> 0, profit |-> 0]

bucketAddOverwrites(bucket, addRevenue, addExpense) ==
    [bucket EXCEPT !.revenue = addRevenue,
                   !.expense = addExpense,
                   !.profit = addRevenue - addExpense]

bucketAdd(bucket, addRevenue, addExpense) ==
    [bucket EXCEPT !.revenue = @ + addRevenue,
                   !.expense = @ + addExpense,
                   !.profit = (bucket.revenue + addRevenue) - (bucket.expense + addExpense)]

\* one pass of the loop over sortedEntries
metricsStep(acc, entry, revenueAccounts, expenseAccounts) ==
    LET key == monthKey(entry.date)
        bucket == IF key \in DOMAIN acc.monthlyAggregator
                  THEN acc.monthlyAggregator[key] ELSE emptyBucket(key)
        addRevenue == entryRevenue(entry.lines, revenueAccounts)
        addExpense == entryExpense(entry.lines, expenseAccounts)
    IN [monthlyAggregator |-> MapSet(acc.monthlyAggregator, key,
                                     bucketAdd(bucket, addRevenue, addExpense)),
        revenue |-> acc.revenue + addRevenue,
        expense |-> acc.expense + addExpense]

RECURSIVE metricsLoop(_, _, _, _)
metricsLoop(acc, entries, revenueAccounts, expenseAccounts) ==
    IF entries = <<>> THEN acc
    ELSE metricsLoop(metricsStep(acc, entries[1], revenueAccounts, expenseAccounts),
                     Tail(entries), revenueAccounts, expenseAccounts)

\* the keys of the aggregator sorted with a[0].localeCompare(b[0])
RECURSIVE sortedKeys(_)
sortedKeys(keys) ==
    IF keys = {} THEN <<>>
    ELSE LET first == CHOOSE k \in keys : \A other \in keys : k <= other
         IN <<first>> \o sortedKeys(keys \ {first})

monthlyOf(aggregator) ==
    LET keys == sortedKeys(DOMAIN aggregator)
    IN [i \in 1..Len(keys) |->
           [aggregator[keys[i]] EXCEPT
               !.profit = aggregator[keys[i]].revenue - aggregator[keys[i]].expense]]

marginOfUnguarded(revenue, profit) == [num |-> profit * 100, den |-> revenue]

\* revenue === 0 ? 0 : (profit / revenue) * 100
marginOf(revenue, profit) ==
    IF revenue = 0 THEN [num |-> 0, den |-> 1] ELSE [num |-> profit * 100, den |-> revenue]

sliceRecentOldest(sortedEntries) ==
    SubSeq(sortedEntries,
           IF Len(sortedEntries) > RecentCount THEN Len(sortedEntries) - RecentCount + 1 ELSE 1,
           Len(sortedEntries))

\* sortedEntries.slice(0, 8)
sliceRecent(sortedEntries) ==
    SubSeq(sortedEntries, 1,
           IF Len(sortedEntries) < RecentCount THEN Len(sortedEntries) ELSE RecentCount)

buildDashboardMetrics(entries, accs) ==
    LET sortedEntries == dashboardArrays(entries).sortedEntries
        sums == metricsLoop([monthlyAggregator |-> <<>>, revenue |-> 0, expense |-> 0],
                            sortedEntries, IdsOfType(accs, "Revenue"),
                            IdsOfType(accs, "Expense"))
        profit == sums.revenue - sums.expense
    IN [summary |-> [revenue |-> sums.revenue, expense |-> sums.expense,
                     profit |-> profit, margin |-> marginOf(sums.revenue, profit)],
        monthly |-> monthlyOf(sums.monthlyAggregator),
        recentEntries |-> sliceRecent(sortedEntries)]

metrics == buildDashboardMetrics(journalEntries, accounts)

---------------------------------------------------------------------------
(* Journal: the listing of the posted entries, with the search box empty *)

NoDate == 0

journalFilteredEntries(entries, fromDate, toDate) ==
    LET Keep(entry) == /\ fromDate = NoDate \/ entry.date >= fromDate
                       /\ toDate = NoDate \/ entry.date <= toDate
    IN SelectSeq(entries, Keep)

ListingLabelBlank(accs, line) ==
    IF AccountById(accs, line.accountId) # <<>>
    THEN AccountById(accs, line.accountId)[1].name
    ELSE ""

\* account?.name ?? 'Account removed'
ListingLabel(accs, line) ==
    IF AccountById(accs, line.accountId) # <<>>
    THEN AccountById(accs, line.accountId)[1].name
    ELSE "Account removed"

ListingLine(accs, line) ==
    [label |-> ListingLabel(accs, line),
     debitShown |-> IF line.debit > 0 THEN Text(line.debit) ELSE EmptyText,
     creditShown |-> IF line.credit > 0 THEN Text(line.credit) ELSE EmptyText]

ListingRow(accs, entry) ==
    [date |-> entry.date,
     lines |-> [j \in 1..Len(entry.lines) |-> ListingLine(accs, entry.lines[j])]]

journalListing(entries, accs, fromDate, toDate) ==
    LET shown == journalFilteredEntries(entries, fromDate, toDate)
    IN [i \in 1..Len(shown) |-> ListingRow(accs, shown[i])]

---------------------------------------------------------------------------
(* Invoicing: the invoice builder.  A quantity, a unit price, a discount   *)
(* and a tax rate are integers; the totals of computeTotals are kept       *)
(* multiplied by PercentScale, so that the two divisions by 100 are exact. *)
(* The description, warehouse, address, date and note fields of the draft  *)
(* take no part in validation or totals and are left out.                  *)

PercentScale == 10000

\* parties.filter((party) => party.type === 'customer')
customersOf(allParties) ==
    LET IsCustomer(party) == party.type = "customer" IN SelectSeq(allParties, IsCustomer)

emptyDraftLine ==
    [inventoryId |-> NoId, quantity |-> Text(1), unitPrice |-> EmptyText,
     discount |-> Text(0), taxRate |-> Text(0)]

\* the draft handed to useState and to setDraft: `offset` is 1 at mount, 2 on reset
InitialDraft(allParties, invoiceCount, offset) ==
    [invoiceNumber |-> invoiceCount + offset,
     customerId |-> IF customersOf(allParties) # <<>>
                    THEN customersOf(allParties)[1].id ELSE NoId,
     lines |-> <<emptyDraftLine>>]

\* the draft of the Invoicing module while it is not mounted
NoDraft == InitialDraft(<<>>, 0, 1)

InventoryById(items, id) ==
    LET Matches(item) == item.id = id IN FindFirst(items, Matches)

\* parseFloat(line.unitPrice || `${inventory?.unitPrice ?? 0}`)
LineRate(line, items) ==
    IF line.unitPrice # EmptyText THEN line.unitPrice[1]
    ELSE IF InventoryById(items, line.inventoryId) # <<>>
    THEN InventoryById(items, line.inventoryId)[1].unitPrice
    ELSE 0

calculateLineTotal(quantity, rate, discount, taxRate) ==
    LET base == quantity * rate
    IN base * (100 - discount) * 100 + base * (100 - discount) * taxRate

\* !quantity: the parsed quantity is 0 or NaN
skipsLine(line) == IsNaNText(line.quantity) \/ ParseOrZero(line.quantity) = 0

TotalsStepTaxOnBase(totals, line, items) ==
    LET quantity == ParseOrZero(line.quantity)
        discount == ParseOrZero(line.discount)
        taxRate == ParseOrZero(line.taxRate)
        base == quantity * LineRate(line, items)
    IN IF skipsLine(line) THEN totals
       ELSE [subtotal |-> totals.subtotal + base * (100 - discount) * 100,
             discountTotal |-> totals.discountTotal + base * discount * 100,
             taxTotal |-> totals.taxTotal + base * 100 * taxRate]

\* one pass of the loop of computeTotals
TotalsStep(totals, line, items) ==
    LET quantity == ParseOrZero(line.quantity)
        discount == ParseOrZero(line.discount)
        taxRate == ParseOrZero(line.taxRate)
        base == quantity * LineRate(line, items)
    IN IF skipsLine(line) THEN totals
       ELSE [subtotal |-> totals.subtotal + base * (100 - discount) * 100,
             discountTotal |-> totals.discountTotal + base * discount * 100,
             taxTotal |-> totals.taxTotal + base * (100 - discount) * taxRate]

RECURSIVE TotalsLoopStopsAtSkipped(_, _, _)
TotalsLoopStopsAtSkipped(totals, lines, items) ==
    IF lines = <<>> THEN totals
    ELSE IF skipsLine(lines[1]) THEN totals
    ELSE TotalsLoopStopsAtSkipped(TotalsStep(totals, lines[1], items), Tail(lines), items)

RECURSIVE TotalsLoop(_, _, _)
TotalsLoop(totals, lines, items) ==
    IF lines = <<>> THEN totals
    ELSE TotalsLoop(TotalsStep(totals, lines[1], items), Tail(lines), items)

computeTotals(lines, items) ==
    LET sums == TotalsLoop([subtotal |-> 0, discountTotal |-> 0, taxTotal |-> 0], lines, items)
    IN [subtotal |-> sums.subtotal,
        discountTotal |-> sums.discountTotal,
        taxTotal |-> sums.taxTotal,
        total |-> sums.subtotal + sums.taxTotal]

totals == computeTotals(draft.lines, inventoryItems)

lacksCustomer(form) == form.customerId = NoId
lacksInventory(form) == \E i \in 1..Len(form.lines) : form.lines[i].inventoryId = NoId
subtotalNotPositiveLoose(form, items) == computeTotals(form.lines, items).subtotal < 0
subtotalNotPositive(form, items) == computeTotals(form.lines, items).subtotal <= 0

enrichedLine(line) ==
    [inventoryId |-> line.inventoryId,
     quantity |-> ParseOrZero(line.quantity),
     unitPrice |-> ParseOrZero(line.unitPrice),
     discount |-> ParseOrZero(line.discount),
     taxRate |-> ParseOrZero(line.taxRate)]

invoicePayload(form, items) ==
    [invoiceNumber |-> form.invoiceNumber,
     customerId |-> form.customerId,
     lines |-> SeqMap(enrichedLine, form.lines),
     subtotal |-> computeTotals(form.lines, items).subtotal,
     discountTotal |-> computeTotals(form.lines, items).discountTotal,
     taxTotal |-> computeTotals(form.lines, items).taxTotal,
     total |-> computeTotals(form.lines, items).total,
     status |-> "issued"]

SetDraftLineField(form, i, field, value) ==
    [form EXCEPT !.lines[i] = [@ EXCEPT ![field] = value]]

handleCustomerChange(customerId) ==
    /\ customerId = NoId \/ \E k \in 1..Len(customersOf(parties)) :
                                customersOf(parties)[k].id = customerId
    /\ draft' = [draft EXCEPT !.customerId = customerId]
    /\ UNCHANGED <<journalVars, activeModule, inventoryVars, salesVars, error, isGenerating, pendingInvoice>>

\* the item select of a line: the unit price follows the chosen item
InventorySelectChange(i, inventoryId) ==
    /\ i \in 1..Len(draft.lines)
    /\ inventoryId = NoId \/ InventoryById(inventoryItems, inventoryId) # <<>>
    /\ LET chosen == SetDraftLineField(draft, i, "inventoryId", inventoryId)
           inventory == InventoryById(inventoryItems, inventoryId)
       IN draft' = IF inventory # <<>>
                   THEN SetDraftLineField(chosen, i, "unitPrice", Text(inventory[1].unitPrice))
                   ELSE chosen
    /\ UNCHANGED <<journalVars, activeModule, inventoryVars, salesVars, error, isGenerating, pendingInvoice>>

\* handleLineChange(id, field, value) from a number input of a line
InvoiceLineChange(i, field, text) ==
    /\ i \in 1..Len(draft.lines)
    /\ field \in {"quantity", "unitPrice", "discount", "taxRate"}
    /\ draft' = SetDraftLineField(draft, i, field, text)
    /\ UNCHANGED <<journalVars, activeModule, inventoryVars, salesVars, error, isGenerating, pendingInvoice>>

addLine ==
    /\ Len(draft.lines) < MaxInvoiceLines
    /\ draft' = [draft EXCEPT !.lines = Append(@, emptyDraftLine)]
    /\ UNCHANGED <<journalVars, activeModule, inventoryVars, salesVars, error, isGenerating, pendingInvoice>>

removeLine(i) ==
    /\ i \in 1..Len(draft.lines)
    /\ draft' = [draft EXCEPT !.lines = IF Len(@) = 1 THEN @ ELSE RemoveAt(@, i)]
    /\ UNCHANGED <<journalVars, activeModule, inventoryVars, salesVars, error, isGenerating, pendingInvoice>>

\* handleSubmit up to its first await: validation, then the addInvoice call
handleSubmit ==
    /\ ~isGenerating
    /\ IF lacksCustomer(draft)
       THEN /\ error' = "Select a customer for the invoice."
            /\ UNCHANGED <<isGenerating, pendingInvoice>>
       ELSE IF lacksInventory(draft)
       THEN /\ error' = "Each line requires an inventory item."
            /\ UNCHANGED <<isGenerating, pendingInvoice>>
       ELSE IF subtotalNotPositive(draft, inventoryItems)
       THEN /\ error' = "Invoice must contain at least one billable line."
            /\ UNCHANGED <<isGenerating, pendingInvoice>>
       ELSE /\ Len(invoices) < MaxInvoices
            /\ error' = Null
            /\ isGenerating' = TRUE
            /\ pendingInvoice' = <<[payload |-> invoicePayload(draft, inventoryItems),
                                    awaiting |-> "addInvoice",
                                    invoiceCount |-> Len(invoices),
                                    customers |-> customersOf(parties)]>>
    /\ UNCHANGED <<journalVars, activeModule, inventoryVars, salesVars, draft>>

\* the store's addInvoice
addInvoice(stored, payload) == Append(stored, payload)

\* the awaited addInvoice resolves: the invoice is stored, the PDF is next
AddInvoiceResolved ==
    /\ pendingInvoice # <<>>
    /\ pendingInvoice[1].awaiting = "addInvoice"
    /\ invoices' = addInvoice(invoices, pendingInvoice[1].payload)
    /\ pendingInvoice' = <<[pendingInvoice[1] EXCEPT !.awaiting = "downloadInvoicePdf"]>>
    /\ UNCHANGED <<journalVars, activeModule, inventoryVars, parties, inventoryItems, draft, error, isGenerating>>

\* the awaited downloadInvoicePdf resolves: the draft is reset from the
\* invoices and customers the handler was created with
DownloadResolved ==
    /\ pendingInvoice # <<>>
    /\ pendingInvoice[1].awaiting = "downloadInvoicePdf"
    /\ draft' = InitialDraft(pendingInvoice[1].customers, pendingInvoice[1].invoiceCount, 2)
    /\ isGenerating' = FALSE
    /\ pendingInvoice' = <<>>
    /\ UNCHANGED <<journalVars, activeModule, inventoryVars, salesVars, error>>

\* either awaited call rejects: the error is shown, the draft kept
InvoiceSubmitRejected ==
    /\ pendingInvoice # <<>>
    /\ error' = "Unable to create invoice."
    /\ isGenerating' = FALSE
    /\ pendingInvoice' = <<>>
    /\ UNCHANGED <<journalVars, activeModule, inventoryVars, salesVars, draft>>

\* the store's deleteInvoice, from the Delete button of the invoice register
deleteInvoice(stored, i) == RemoveAt(stored, i)

DeleteInvoiceClick(i) ==
    /\ i \in 1..Len(invoices)
    /\ invoices' = deleteInvoice(invoices, i)
    /\ UNCHANGED <<journalVars, activeModule, inventoryVars, parties, inventoryItems, invoicingVars>>

---------------------------------------------------------------------------
(* Party Management and Inventory: a form filled to `form` and submitted   *)
(* with nothing being edited, the store call resolved.                     *)

addParty(allParties, form) ==
    Append(allParties, [id |-> Len(allParties) + 1, type |-> form.type, name |-> form.name])

CreateParty(form) ==
    /\ Len(parties) < MaxParties
    /\ Trim(form.name) # ""
    /\ parties' = addParty(parties, form)
    /\ UNCHANGED <<journalVars, activeModule, inventoryVars, inventoryItems, invoices, invoicingVars>>

---------------------------------------------------------------------------
(* Inventory: the item form, the stock adjustments and the warehouses.     *)
(* The description and the reorder point of an item take no part in stock  *)
(* and are left out of the form and of the payload.                        *)

outsideInventory == <<journalVars, activeModule, parties, invoices, invoicingVars>>

EMPTY_INVENTORY_FORM ==
    [sku |-> "", name |-> "", unitPrice |-> EmptyText, quantity |-> EmptyText,
     preferredWarehouseId |-> NoId]

\* sku.toUpperCase() over the SKUs the model types
Upper(sku) == IF sku = "w1" THEN "W1" ELSE sku

WarehouseById(allWarehouses, id) ==
    LET Matches(warehouse) == warehouse.id = id IN FindFirst(allWarehouses, Matches)

buildStockByWarehouse(preferredWarehouseId, quantity, allWarehouses) ==
    IF preferredWarehouseId = NoId THEN <<>>
    ELSE IF WarehouseById(allWarehouses, preferredWarehouseId) = <<>> THEN <<>>
    ELSE MapSet(<<>>, preferredWarehouseId, quantity)

\* the payload handleInventorySubmit builds from a form that passed validation
inventoryPayload(form, allWarehouses) ==
    [sku |-> Upper(form.sku),
     name |-> form.name,
     unitPrice |-> ParseOrZero(form.unitPrice),
     quantity |-> ParseOrZero(form.quantity),
     preferredWarehouseId |-> form.preferredWarehouseId,
     stockByWarehouse |-> buildStockByWarehouse(form.preferredWarehouseId,
                                                ParseOrZero(form.quantity), allWarehouses)]

\* the store's addInventoryItem, updateInventoryItem and adjustInventoryStock
addInventoryItem(items, payload) ==
    Append(items, [id |-> Len(items) + 1, sku |-> payload.sku, name |-> payload.name,
                   unitPrice |-> payload.unitPrice, quantity |-> payload.quantity,
                   preferredWarehouseId |-> payload.preferredWarehouseId,
                   stockByWarehouse |-> payload.stockByWarehouse])

updateInventoryItem(items, id, payload) ==
    [i \in 1..Len(items) |->
        IF items[i].id = id
        THEN [items[i] EXCEPT !.sku = payload.sku, !.name = payload.name,
                              !.unitPrice = payload.unitPrice,
                              !.quantity = payload.quantity,
                              !.preferredWarehouseId = payload.preferredWarehouseId,
                              !.stockByWarehouse = payload.stockByWarehouse]
        ELSE items[i]]

adjustInventoryStock(items, ledger, inventoryId, warehouseId, delta) ==
    [items |-> [i \in 1..Len(items) |->
                   IF items[i].id = inventoryId
                   THEN [items[i] EXCEPT !.stockByWarehouse =
                            MapSet(@, warehouseId, MapGet(@, warehouseId) + delta)]
                   ELSE items[i]],
     ledger |-> Append(ledger, [inventoryId |-> inventoryId, warehouseId |-> warehouseId,
                                quantityDelta |-> delta])]

inventoryFormError(form) ==
    IF Trim(form.name) = "" \/ Trim(form.sku) = "" THEN "SKU and Name are required."
    ELSE IF IsNaNText(form.unitPrice) \/ ParseOrZero(form.unitPrice) < 0
    THEN "Enter a valid unit price."
    ELSE IF IsNaNText(form.quantity) \/ ParseOrZero(form.quantity) < 0
    THEN "Quantity must be zero or greater."
    ELSE Null

InventoryFormChange(field, value) ==
    /\ inventoryForm' = [inventoryForm EXCEPT ![field] = value]
    /\ UNCHANGED <<outsideInventory, inventoryItems, stockVars, inventoryError,
                   editingItemId, adjustments>>

handleInventorySubmit ==
    IF inventoryFormError(inventoryForm) # Null
    THEN /\ inventoryError' = inventoryFormError(inventoryForm)
         /\ UNCHANGED <<outsideInventory, inventoryItems, stockVars, inventoryForm,
                        editingItemId, adjustments>>
    ELSE /\ editingItemId = NoId => Len(inventoryItems) < MaxItems
         /\ inventoryItems' =
               IF editingItemId # NoId
               THEN updateInventoryItem(inventoryItems, editingItemId,
                                        inventoryPayload(inventoryForm, warehouses))
               ELSE addInventoryItem(inventoryItems,
                                     inventoryPayload(inventoryForm, warehouses))
         /\ inventoryError' = Null
         /\ inventoryForm' = EMPTY_INVENTORY_FORM
         /\ editingItemId' = NoId
         /\ UNCHANGED <<outsideInventory, stockVars, adjustments>>

startInventoryEdit(id) ==
    /\ InventoryById(inventoryItems, id) # <<>>
    /\ LET item == InventoryById(inventoryItems, id)[1]
       IN inventoryForm' = [sku |-> item.sku, name |-> item.name,
                            unitPrice |-> Text(item.unitPrice),
                            quantity |-> Text(item.quantity),
                            preferredWarehouseId |-> item.preferredWarehouseId]
    /\ editingItemId' = id
    /\ UNCHANGED <<outsideInventory, inventoryItems, stockVars, inventoryError, adjustments>>

CancelInventoryEdit ==
    /\ editingItemId # NoId
    /\ inventoryForm' = EMPTY_INVENTORY_FORM
    /\ editingItemId' = NoId
    /\ UNCHANGED <<outsideInventory, inventoryItems, stockVars, inventoryError, adjustments>>

\* adjustments[`${item.id}-${warehouse.id}`] ?? ''
AdjustmentText(map, key) == IF key \in DOMAIN map THEN map[key] ELSE EmptyText

AdjustmentInputChange(inventoryId, warehouseId, text) ==
    /\ InventoryById(inventoryItems, inventoryId) # <<>>
    /\ WarehouseById(warehouses, warehouseId) # <<>>
    /\ adjustments' = MapSet(adjustments, <<inventoryId, warehouseId>>, text)
    /\ UNCHANGED <<outsideInventory, inventoryItems, stockVars, inventoryForm,
                   inventoryError, editingItemId>>

skipsAdjustmentOnlyNaN(text) == IsNaNText(text)

\* !delta || Number.isNaN(delta)
skipsAdjustment(text) == IsNaNText(text) \/ ParseOrZero(text) = 0

\* the Adjust button of an item's warehouse row; the awaited store call is
\* local and has resolved when the field is cleared
performAdjustment(inventoryId, warehouseId) ==
    /\ InventoryById(inventoryItems, inventoryId) # <<>>
    /\ WarehouseById(warehouses, warehouseId) # <<>>
    /\ LET text == AdjustmentText(adjustments, <<inventoryId, warehouseId>>)
       IN IF skipsAdjustment(text)
          THEN UNCHANGED <<inventoryItems, inventoryLedger, adjustments>>
          ELSE /\ Len(inventoryLedger) < MaxAdjustments
               /\ LET adjusted == adjustInventoryStock(inventoryItems, inventoryLedger,
                                      inventoryId, warehouseId, ParseOrZero(text))
                  IN /\ inventoryItems' = adjusted.items
                     /\ inventoryLedger' = adjusted.ledger
               /\ adjustments' = MapSet(adjustments, <<inventoryId, warehouseId>>, EmptyText)
    /\ UNCHANGED <<outsideInventory, warehouses, nextWarehouseId, inventoryForm,
                   inventoryError, editingItemId>>

\* the store's addWarehouse and deleteWarehouse
addWarehouse(allWarehouses, id, form) == Append(allWarehouses, [id |-> id, name |-> form.name])

deleteWarehouse(allWarehouses, id) ==
    LET Kept(warehouse) == warehouse.id # id IN SelectSeq(allWarehouses, Kept)

\* a warehouse form filled to `form` and submitted with no warehouse being edited
CreateWarehouse(form) ==
    /\ nextWarehouseId <= MaxWarehouses
    /\ Trim(form.name) # ""
    /\ warehouses' = addWarehouse(warehouses, nextWarehouseId, form)
    /\ nextWarehouseId' = nextWarehouseId + 1
    /\ UNCHANGED <<outsideInventory, inventoryItems, inventoryLedger, inventoryFormVars>>

\* the Delete button of the warehouses table
DeleteWarehouseClick(id) ==
    /\ WarehouseById(warehouses, id) # <<>>
    /\ warehouses' = deleteWarehouse(warehouses, id)
    /\ UNCHANGED <<outsideInventory, inventoryItems, nextWarehouseId, inventoryLedger,
                   inventoryFormVars>>

\* an item form filled to `form` and submitted with no item being edited
CreateInventoryItem(form) ==
    /\ Len(inventoryItems) < MaxItems
    /\ inventoryFormError(form) = Null
    /\ inventoryItems' = addInventoryItem(inventoryItems, inventoryPayload(form, warehouses))
    /\ UNCHANGED <<outsideInventory, inventoryVars>>

---------------------------------------------------------------------------
(* The shell: the sidebar mounts the chosen module, whose state is built   *)
(* anew, and unmounts the other.  Leaving a module while one of its        *)
(* store calls is awaited is outside the model.                            *)

ModuleIds == {"dashboard", "journal", "parties", "inventory", "invoicing", "reports", "settings"}

setActiveModule(id) ==
    /\ id \in ModuleIds
    /\ id # activeModule
    /\ pendingEntry = <<>>
    /\ pendingInvoice = <<>>
    /\ activeModule' = id
    /\ entryForm' = EmptyEntryForm
    /\ entryError' = Null
    /\ isSubmitting' = FALSE
    /\ accountForm' = EmptyAccountForm
    /\ accountError' = Null
    /\ editingAccountId' = NoId
    /\ draft' = IF id = "invoicing" THEN InitialDraft(parties, Len(invoices), 1) ELSE NoDraft
    /\ error' = Null
    /\ isGenerating' = FALSE
    /\ inventoryForm' = EMPTY_INVENTORY_FORM
    /\ inventoryError' = Null
    /\ editingItemId' = NoId
    /\ adjustments' = <<>>
    /\ UNCHANGED <<storeVars, pendingEntry, salesVars, pendingInvoice, stockVars>>

---------------------------------------------------------------------------
(* The store after construction *)

SeedAccounts ==
    << [id |-> 1, name |-> "Cash", type |-> "Asset", isSystem |-> TRUE],
       [id |-> 2, name |-> "Sales", type |-> "Revenue", isSystem |-> TRUE] >>

Init ==
    /\ accounts = SeedAccounts
    /\ journalEntries = <<>>
    /\ nextAccountId = Len(SeedAccounts) + 1
    /\ entryForm = EmptyEntryForm
    /\ entryError = Null
    /\ isSubmitting = FALSE
    /\ pendingEntry = <<>>
    /\ accountForm = EmptyAccountForm
    /\ accountError = Null
    /\ editingAccountId = NoId
    /\ activeModule = "dashboard"
    /\ parties = <<>>
    /\ inventoryItems = <<>>
    /\ invoices = <<>>
    /\ draft = NoDraft
    /\ error = Null
    /\ isGenerating = FALSE
    /\ pendingInvoice = <<>>
    /\ warehouses = <<>>
    /\ nextWarehouseId = 1
    /\ inventoryLedger = <<>>
    /\ inventoryForm = EMPTY_INVENTORY_FORM
    /\ inventoryError = Null
    /\ editingItemId = NoId
    /\ adjustments = <<>>

---------------------------------------------------------------------------
(* A session in the Journal module, on the entry form *)

TypedAmounts == {EmptyText} \cup {Text(n) : n \in 1..MaxAmount}
TypedNames == {"cash", "nobody"}

JournalNext ==
    \/ \E id \in {"journal"} : setActiveModule(id)
    \/ \E i \in 1..MaxLines, typed \in TypedNames :
            activeModule = "journal" /\ AccountInputChange(i, typed)
    \/ \E i \in 1..MaxLines, text \in TypedAmounts :
            activeModule = "journal" /\ DebitInputChange(i, text)
    \/ \E i \in 1..MaxLines, text \in TypedAmounts :
            activeModule = "journal" /\ CreditInputChange(i, text)
    \/ activeModule = "journal" /\ handleAddLine
    \/ \E i \in 1..MaxLines : activeModule = "journal" /\ handleRemoveLine(i)
    \/ activeModule = "journal" /\ handleEntrySubmit
    \/ EntrySubmitResolved
    \/ EntrySubmitRejected
    \/ \E i \in 1..MaxPosts : activeModule = "journal" /\ deleteJournalEntry(i)

SpecJournal == Init /\ [][JournalNext]_vars

---------------------------------------------------------------------------
(* The store as the Reports module sees it: entries posted and deleted and *)
(* accounts added and deleted.  Each step is a whole visit to the Journal  *)
(* module and back: a visit that fills a form and submits it, or presses a *)
(* Delete button, leaves the Journal state at its initial value.           *)

Dates == 1..MaxDate

AccountIds(accs) == {accs[i].id : i \in 1..Len(accs)}

\* a draft line as the change handlers leave it: one side typed
DraftLines(accs) ==
    {[accountId |-> id, debit |-> Text(n), credit |-> EmptyText] :
        id \in AccountIds(accs), n \in 1..MaxAmount}
    \cup
    {[accountId |-> id, debit |-> EmptyText, credit |-> Text(n)] :
        id \in AccountIds(accs), n \in 1..MaxAmount}

EntryDrafts(accs) ==
    {[date |-> d, lines |-> <<l1, l2>>] :
        d \in Dates, l1 \in DraftLines(accs), l2 \in DraftLines(accs)}

\* an entry form filled to `form`, submitted, the addJournalEntry call resolved
PostJournalEntry(form) ==
    /\ Len(journalEntries) < MaxEntries
    /\ isBalanced(form)
    /\ ~hasAccountGaps(form)
    /\ journalEntries' = addJournalEntry(journalEntries, EntryPayload(form))
    /\ UNCHANGED <<outsideJournal, accounts, nextAccountId, entryVars, accountFormVars>>

\* an account form filled to `form` and submitted with no account being edited
CreateAccount(form) ==
    /\ nextAccountId <= MaxAccountId
    /\ ~nameIsBlank(form)
    /\ accounts' = AccountSubmitStore(accounts, nextAccountId, NoId, form)
    /\ nextAccountId' = nextAccountId + 1
    /\ UNCHANGED <<outsideJournal, journalEntries, entryVars, accountFormVars>>

NewAccountForms == {[name |-> n, type |-> t] : n \in {" ", "Loan"}, t \in AccountTypes}

ReportsNext ==
    \/ \E form \in EntryDrafts(accounts) : PostJournalEntry(form)
    \/ \E i \in 1..MaxEntries : deleteJournalEntry(i)
    \/ \E form \in NewAccountForms : CreateAccount(form)
    \/ \E id \in 1..MaxAccountId : DeleteAccountClick(id)

SpecReports == Init /\ [][ReportsNext]_vars

---------------------------------------------------------------------------
(* Sessions on the three validated forms: the entry form and the account   *)
(* form of the Journal module and the invoice builder, with customers and  *)
(* inventory items created in visits to their modules from the dashboard.  *)

FormAmounts == {EmptyText, Text(2)}
FormNames == {"cash", "nobody"}
FormAccountNames == {" ", "Loan"}
FormQuantities == {EmptyText, Text(1), Text(-1)}
FormDiscounts == {Text(0), Text(100)}
FormParties == {[type |-> t, name |-> "Acme"] : t \in {"customer", "vendor"}}
FormItems ==
    {[sku |-> "w1", name |-> "Widget", unitPrice |-> Text(3), quantity |-> Text(5),
      preferredWarehouseId |-> NoId]}

FormsNext ==
    \/ \E id \in {"dashboard", "journal", "invoicing"} : setActiveModule(id)
    \/ \E i \in 1..2, typed \in FormNames :
            activeModule = "journal" /\ AccountInputChange(i, typed)
    \/ \E i \in 1..2, text \in FormAmounts :
            activeModule = "journal" /\ DebitInputChange(i, text)
    \/ \E i \in 1..2, text \in FormAmounts :
            activeModule = "journal" /\ CreditInputChange(i, text)
    \/ activeModule = "journal" /\ handleEntrySubmit
    \/ EntrySubmitResolved
    \/ EntrySubmitRejected
    \/ \E name \in FormAccountNames : activeModule = "journal" /\ AccountNameChange(name)
    \/ activeModule = "journal" /\ handleAccountSubmit
    \/ \E id \in {1} : activeModule = "journal" /\ beginAccountEdit(id)
    \/ activeModule = "journal" /\ CancelAccountEdit
    \/ \E id \in {NoId, 1} : activeModule = "invoicing" /\ handleCustomerChange(id)
    \/ \E id \in {NoId, 1} : activeModule = "invoicing" /\ InventorySelectChange(1, id)
    \/ \E text \in FormQuantities :
            activeModule = "invoicing" /\ InvoiceLineChange(1, "quantity", text)
    \/ \E text \in FormDiscounts :
            activeModule = "invoicing" /\ InvoiceLineChange(1, "discount", text)
    \/ activeModule = "invoicing" /\ handleSubmit
    \/ AddInvoiceResolved
    \/ DownloadResolved
    \/ InvoiceSubmitRejected
    \/ \E form \in FormParties : activeModule = "dashboard" /\ CreateParty(form)
    \/ \E form \in FormItems : activeModule = "dashboard" /\ CreateInventoryItem(form)

SpecForms == Init /\ [][FormsNext]_vars

---------------------------------------------------------------------------
(* A session on the lines of the invoice builder: the draft that            *)
(* computeTotals is applied to on every render.                            *)

TotalsQuantities == {EmptyText, Text(0), Text(2), Unparsable}
TotalsPrices == {EmptyText, Text(50)}
TotalsDiscounts == {Text(0), Text(10)}
TotalsTaxRates == {Text(0), Text(18)}

TotalsNext ==
    \/ \E id \in {"invoicing"} : setActiveModule(id)
    \/ \E form \in FormItems : activeModule = "dashboard" /\ CreateInventoryItem(form)
    \/ \E i \in 1..MaxInvoiceLines, id \in {NoId, 1} :
            activeModule = "invoicing" /\ InventorySelectChange(i, id)
    \/ \E i \in 1..MaxInvoiceLines, text \in TotalsQuantities :
            activeModule = "invoicing" /\ InvoiceLineChange(i, "quantity", text)
    \/ \E i \in 1..MaxInvoiceLines, text \in TotalsPrices :
            activeModule = "invoicing" /\ InvoiceLineChange(i, "unitPrice", text)
    \/ \E i \in 1..MaxInvoiceLines, text \in TotalsDiscounts :
            activeModule = "invoicing" /\ InvoiceLineChange(i, "discount", text)
    \/ \E i \in 1..MaxInvoiceLines, text \in TotalsTaxRates :
            activeModule = "invoicing" /\ InvoiceLineChange(i, "taxRate", text)
    \/ activeModule = "invoicing" /\ addLine
    \/ \E i \in 1..MaxInvoiceLines : activeModule = "invoicing" /\ removeLine(i)

SpecTotals == Init /\ [][TotalsNext]_vars

---------------------------------------------------------------------------
(* Invoices generated and deleted in the Invoicing module, for a customer  *)
(* and an item created beforehand: the item is chosen, the unit price and  *)
(* the quantity are typed or cleared, the draft is submitted.              *)

InvoiceParties == {[type |-> "customer", name |-> "Acme"]}
InvoicePrices == {EmptyText, Text(4)}
InvoiceQuantities == {Text(0), Text(2)}

InvoicesNext ==
    \/ \E id \in {"invoicing", "dashboard"} : setActiveModule(id)
    \/ \E form \in InvoiceParties : activeModule = "dashboard" /\ CreateParty(form)
    \/ \E form \in FormItems : activeModule = "dashboard" /\ CreateInventoryItem(form)
    \/ \E id \in {1} : activeModule = "invoicing" /\ InventorySelectChange(1, id)
    \/ \E text \in InvoicePrices :
            activeModule = "invoicing" /\ InvoiceLineChange(1, "unitPrice", text)
    \/ \E text \in InvoiceQuantities :
            activeModule = "invoicing" /\ InvoiceLineChange(1, "quantity", text)
    \/ activeModule = "invoicing" /\ handleSubmit
    \/ AddInvoiceResolved
    \/ DownloadResolved
    \/ InvoiceSubmitRejected
    \/ \E i \in 1..MaxInvoices : activeModule = "invoicing" /\ DeleteInvoiceClick(i)

SpecInvoices == Init /\ [][InvoicesNext]_vars

---------------------------------------------------------------------------
(* Sessions that grow and shrink the two drafts: lines are added to and    *)
(* removed from the journal entry form and the invoice builder, and both   *)
(* are submitted.                                                          *)

DraftNames == {"cash"}
DraftAmounts == {Text(1)}

DraftsNext ==
    \/ \E id \in {"journal", "invoicing", "dashboard"} : setActiveModule(id)
    \/ \E i \in 1..MaxLines, typed \in DraftNames :
            activeModule = "journal" /\ AccountInputChange(i, typed)
    \/ \E text \in DraftAmounts : activeModule = "journal" /\ DebitInputChange(1, text)
    \/ \E text \in DraftAmounts : activeModule = "journal" /\ CreditInputChange(2, text)
    \/ activeModule = "journal" /\ handleAddLine
    \/ \E i \in 1..MaxLines : activeModule = "journal" /\ handleRemoveLine(i)
    \/ activeModule = "journal" /\ handleEntrySubmit
    \/ EntrySubmitResolved
    \/ EntrySubmitRejected
    \/ \E form \in InvoiceParties : activeModule = "dashboard" /\ CreateParty(form)
    \/ \E form \in FormItems : activeModule = "dashboard" /\ CreateInventoryItem(form)
    \/ \E i \in 1..MaxInvoiceLines : activeModule = "invoicing" /\ InventorySelectChange(i, 1)
    \/ activeModule = "invoicing" /\ addLine
    \/ \E i \in 1..MaxInvoiceLines : activeModule = "invoicing" /\ removeLine(i)
    \/ activeModule = "invoicing" /\ handleSubmit
    \/ AddInvoiceResolved
    \/ DownloadResolved
    \/ InvoiceSubmitRejected

SpecDrafts == Init /\ [][DraftsNext]_vars

---------------------------------------------------------------------------
(* The store as the Dashboard sees it: entries of three kinds posted on    *)
(* the dates of two months, and an Expense or Revenue account added and    *)
(* deleted, each in a visit to the Journal module and back.                *)

DashboardDates == 1..MaxDashboardDate

DashboardDrafts(accs) ==
    {[date |-> d,
      lines |-> << [accountId |-> (IF d = 2 THEN 3 ELSE 1),
                    debit |-> Text(IF d = 1 THEN 2 ELSE 1), credit |-> EmptyText],
                   [accountId |-> (IF d = 2 THEN 1 ELSE 2),
                    debit |-> EmptyText, credit |-> Text(IF d = 1 THEN 2 ELSE 1)] >>] :
        d \in {d \in DashboardDates : d = 2 => 3 \in AccountIds(accs)}}

PostDashboardEntry(form) ==
    /\ Len(journalEntries) < MaxDashboardEntries
    /\ isBalanced(form)
    /\ ~hasAccountGaps(form)
    /\ journalEntries' = addJournalEntry(journalEntries, EntryPayload(form))
    /\ UNCHANGED <<outsideJournal, accounts, nextAccountId, entryVars, accountFormVars>>

DashboardAccountForms == {[name |-> "Rent", type |-> t] : t \in {"Expense", "Revenue"}}

DashboardNext ==
    \/ \E form \in DashboardDrafts(accounts) : PostDashboardEntry(form)
    \/ \E form \in DashboardAccountForms : CreateAccount(form)
    \/ \E id \in 1..MaxAccountId : DeleteAccountClick(id)

SpecDashboard == Init /\ [][DashboardNext]_vars

---------------------------------------------------------------------------
(* The chart of accounts in the Journal module: the account form (add and  *)
(* edit) and the Edit and Delete buttons of the accounts table.            *)

AccountFormNames == {" ", "Loan"}

AccountsNext ==
    \/ \E id \in {"journal"} : setActiveModule(id)
    \/ \E name \in AccountFormNames : activeModule = "journal" /\ AccountNameChange(name)
    \/ \E type \in AccountTypes : activeModule = "journal" /\ AccountTypeChange(type)
    \/ activeModule = "journal" /\ handleAccountSubmit
    \/ \E id \in 1..MaxAccountId : activeModule = "journal" /\ beginAccountEdit(id)
    \/ activeModule = "journal" /\ CancelAccountEdit
    \/ \E id \in 1..MaxAccountId : activeModule = "journal" /\ DeleteAccountClick(id)

SpecAccounts == Init /\ [][AccountsNext]_vars

---------------------------------------------------------------------------
(* The entry form with signed amounts typed into the debit and credit      *)
(* fields: the change handlers store the text as typed.                    *)

SignedAmounts == {EmptyText, Text(-1), Text(1)}
SignedNames == {"cash", "sales"}

SignedNext ==
    \/ \E id \in {"journal"} : setActiveModule(id)
    \/ \E i \in 1..2, typed \in SignedNames :
            activeModule = "journal" /\ AccountInputChange(i, typed)
    \/ \E i \in 1..2, text \in SignedAmounts :
            activeModule = "journal" /\ DebitInputChange(i, text)
    \/ \E i \in 1..2, text \in SignedAmounts :
            activeModule = "journal" /\ CreditInputChange(i, text)
    \/ activeModule = "journal" /\ handleEntrySubmit
    \/ EntrySubmitResolved
    \/ EntrySubmitRejected

SpecSigned == Init /\ [][SignedNext]_vars

---------------------------------------------------------------------------
(* A session in the Inventory module: warehouses added and deleted, the    *)
(* item form (add and edit) and the stock adjustments of the catalogue.    *)

InventoryFormValues ==
    {<<"name", "Widget">>, <<"sku", "w1">>, <<"quantity", Text(3)>>}
        \cup {<<"preferredWarehouseId", id>> : id \in 1..MaxWarehouses}
ReceiptTexts == {Text(2)}
WarehouseForms == {[name |-> "Main"]}

InventoryNext ==
    \/ \E id \in {"inventory"} : setActiveModule(id)
    \/ \E form \in WarehouseForms : activeModule = "inventory" /\ CreateWarehouse(form)
    \/ \E id \in 1..MaxWarehouses : activeModule = "inventory" /\ DeleteWarehouseClick(id)
    \/ \E change \in InventoryFormValues :
            activeModule = "inventory" /\ InventoryFormChange(change[1], change[2])
    \/ activeModule = "inventory" /\ handleInventorySubmit
    \/ \E id \in 1..MaxItems : activeModule = "inventory" /\ startInventoryEdit(id)
    \/ activeModule = "inventory" /\ CancelInventoryEdit
    \/ \E id \in 1..MaxItems, warehouseId \in 1..MaxWarehouses, text \in ReceiptTexts :
            activeModule = "inventory" /\ AdjustmentInputChange(id, warehouseId, text)
    \/ \E id \in 1..MaxItems, warehouseId \in 1..MaxWarehouses :
            activeModule = "inventory" /\ performAdjustment(id, warehouseId)

SpecInventory == Init /\ [][InventoryNext]_vars

---------------------------------------------------------------------------
(* Stock adjustments in the Inventory module, on items saved with the item *)
(* form left at its initial value afterwards.                              *)

AdjustmentTexts == {Text(0), Text(-1), Text(2), Unparsable}
StockItems ==
    {[sku |-> "w1", name |-> "Widget", unitPrice |-> EmptyText, quantity |-> Text(3),
      preferredWarehouseId |-> id] : id \in {NoId, 1}}

StockNext ==
    \/ \E id \in {"inventory"} : setActiveModule(id)
    \/ \E form \in WarehouseForms : activeModule = "inventory" /\ CreateWarehouse(form)
    \/ \E id \in 1..MaxWarehouses : activeModule = "inventory" /\ DeleteWarehouseClick(id)
    \/ \E form \in StockItems : activeModule = "inventory" /\ CreateInventoryItem(form)
    \/ \E id \in 1..MaxItems, warehouseId \in 1..MaxWarehouses, text \in AdjustmentTexts :
            activeModule = "inventory" /\ AdjustmentInputChange(id, warehouseId, text)
    \/ \E id \in 1..MaxItems, warehouseId \in 1..MaxWarehouses :
            activeModule = "inventory" /\ performAdjustment(id, warehouseId)

SpecStock == Init /\ [][StockNext]_vars

---------------------------------------------------------------------------
(* Shared definitions of the properties *)

\* the sum of f[x] over x in S
RECURSIVE SetSum(_, _)
SetSum(S, f) ==
    IF S = {} THEN 0
    ELSE LET x == CHOOSE x \in S : TRUE IN f[x] + SetSum(S \ {x}, f)

\* the lines of `entries`, each named by its entry and line position
LinePositions(entries) ==
    UNION {{<<i, j>> : j \in 1..Len(entries[i].lines)} : i \in 1..Len(entries)}

LineAt(entries, p) == entries[p[1]].lines[p[2]]

ReferencedIds(entries) == {LineAt(entries, p).accountId : p \in LinePositions(entries)}

\* sum of debit - credit over the lines of `entries` that reference `id`
NetOf(entries, id) ==
    LET hits == {p \in LinePositions(entries) : LineAt(entries, p).accountId = id}
    IN SetSum(hits, [p \in hits |-> LineAt(entries, p).debit - LineAt(entries, p).credit])

EntryDebits(entry) == SumSeq([j \in 1..Len(entry.lines) |-> entry.lines[j].debit])
EntryCredits(entry) == SumSeq([j \in 1..Len(entry.lines) |-> entry.lines[j].credit])

WithinTolerance(entry) == Abs(EntryDebits(entry) - EntryCredits(entry)) < Tolerance
ExactlyBalanced(entry) == EntryDebits(entry) = EntryCredits(entry)

AllExactlyBalanced(entries) == \A i \in 1..Len(entries) : ExactlyBalanced(entries[i])

Ranges == Dates \X Dates

ReportsOf(range) == buildReports(journalEntries, accounts, range[1], range[2])
InRangeEntries(range) == FilterByRange(journalEntries, range[1], range[2])

---------------------------------------------------------------------------
(* C1: every entry handleEntrySubmit passes to addJournalEntry has debit    *)
(* and credit totals less than 0.01 (Tolerance) apart: an entry whose      *)
(* totals differ by 0.01 or more is never passed to the store.             *)

C1_PostedEntriesBalanced ==
    pendingEntry # <<>> => WithinTolerance(pendingEntry[1])

\* an entry of three lines is passed whose totals differ, by less than 0.01
C1_Witness ==
    /\ pendingEntry # <<>>
    /\ Len(pendingEntry[1].lines) = 3
    /\ EntryDebits(pendingEntry[1]) # EntryCredits(pendingEntry[1])
    /\ EntryDebits(pendingEntry[1]) > 0
    /\ entryError = Null

---------------------------------------------------------------------------
(* C2: when every stored entry balances exactly, the trial balance of      *)
(* buildReports has totalDebit = totalCredit for every date range and      *)
(* whatever the current account list is.                                   *)

C2_TrialBalanceTotalsEqual ==
    AllExactlyBalanced(journalEntries) =>
        \A range \in Ranges :
            ReportsOf(range).trialBalance.totalDebit
                = ReportsOf(range).trialBalance.totalCredit

---------------------------------------------------------------------------
(* C3: for a self-consistent ledger (every entry balances exactly, every   *)
(* line's account is in the account list) and any date range,              *)
(* assetTotal = liabilityTotal + equityTotal + netProfit.                  *)

SelfConsistent ==
    /\ AllExactlyBalanced(journalEntries)
    /\ ReferencedIds(journalEntries) \subseteq AccountIds(accounts)

C3_AccountingEquation ==
    SelfConsistent =>
        \A range \in Ranges :
            LET r == ReportsOf(range)
            IN r.balanceSheet.totals.assetTotal
                 = r.balanceSheet.totals.liabilityTotal
                   + r.balanceSheet.totals.equityTotal + r.pnl.netProfit

\* a self-consistent ledger with a liability and a profit in the range
C3_Witness ==
    /\ SelfConsistent
    /\ \E range \in Ranges :
          /\ ReportsOf(range).balanceSheet.totals.liabilityTotal > 0
          /\ ReportsOf(range).pnl.netProfit > 0

---------------------------------------------------------------------------
(* C4: computeAccountBalances has exactly the referenced account ids as    *)
(* keys, maps each to the sum of debit - credit over the lines that        *)
(* reference it, and gives the same map for every order of the entries.    *)

Reordered(entries, perm) == [i \in 1..Len(entries) |-> entries[perm[i]]]

C4_BalancesAreSums ==
    \A range \in Ranges :
        LET entries == InRangeEntries(range)
            balances == computeAccountBalances(entries)
        IN /\ DOMAIN balances = ReferencedIds(entries)
           /\ \A id \in DOMAIN balances : balances[id] = NetOf(entries, id)
           /\ \A perm \in Permutations(1..Len(entries)) :
                 computeAccountBalances(Reordered(entries, perm)) = balances

\* two entries reference a common account, and another account has no line
C4_Witness ==
    /\ Len(journalEntries) = 2
    /\ journalEntries[1] # journalEntries[2]
    /\ \E id \in AccountIds(accounts) :
          /\ id \in ReferencedIds(<<journalEntries[1]>>)
          /\ id \in ReferencedIds(<<journalEntries[2]>>)
          /\ NetOf(journalEntries, id) # 0
    /\ AccountIds(accounts) \ ReferencedIds(journalEntries) # {}

---------------------------------------------------------------------------
(* C5: in the Profit & Loss of buildReports each Revenue account has the   *)
(* negated balance as its amount and each Expense account the balance,     *)
(* revenueTotal and expenseTotal are the sums of those amounts and         *)
(* netProfit = grossProfit = revenueTotal - expenseTotal; one entry that   *)
(* credits a Revenue account by x and debits an Asset account by x gives   *)
(* revenueTotal = x, netProfit = x and assetTotal = x.                     *)

TypeIds(accs, type) == {accs[i].id : i \in {k \in 1..Len(accs) : accs[k].type = type}}

ItemsMatch(items, accs, type, sign, entries) ==
    /\ Len(items) = Len(OfType(accs, type))
    /\ \A i \in 1..Len(items) :
          /\ items[i].account = OfType(accs, type)[i]
          /\ items[i].amount = sign * NetOf(entries, items[i].account.id)

ExampleAccounts == SeedAccounts

ExampleSale ==
    [date |-> 1,
     lines |-> << [accountId |-> 2, debit |-> 0, credit |-> 100],
                  [accountId |-> 1, debit |-> 100, credit |-> 0] >>]

IsSaleOf(entry, accs, x) ==
    /\ Len(entry.lines) = 2
    /\ \E j, k \in 1..2 :
          /\ j # k
          /\ entry.lines[j].accountId \in TypeIds(accs, "Revenue")
          /\ entry.lines[j].credit = x /\ entry.lines[j].debit = 0
          /\ entry.lines[k].accountId \in TypeIds(accs, "Asset")
          /\ entry.lines[k].debit = x /\ entry.lines[k].credit = 0

C5_ProfitAndLoss ==
    /\ \A range \in Ranges :
          LET pnl == ReportsOf(range).pnl
              entries == InRangeEntries(range)
          IN /\ ItemsMatch(pnl.revenueAccounts, accounts, "Revenue", -1, entries)
             /\ ItemsMatch(pnl.expenseAccounts, accounts, "Expense", 1, entries)
             /\ pnl.revenueTotal
                  = SetSum(TypeIds(accounts, "Revenue"),
                           [id \in TypeIds(accounts, "Revenue") |-> -NetOf(entries, id)])
             /\ pnl.expenseTotal
                  = SetSum(TypeIds(accounts, "Expense"),
                           [id \in TypeIds(accounts, "Expense") |-> NetOf(entries, id)])
             /\ pnl.netProfit = pnl.revenueTotal - pnl.expenseTotal
             /\ pnl.grossProfit = pnl.netProfit
             /\ \A x \in 1..MaxAmount :
                   (Len(entries) = 1 /\ IsSaleOf(entries[1], accounts, x)) =>
                       /\ pnl.revenueTotal = x
                       /\ pnl.netProfit = x
                       /\ ReportsOf(range).balanceSheet.totals.assetTotal = x
    /\ LET r == buildReports(<<ExampleSale>>, ExampleAccounts, 1, 1)
       IN /\ r.pnl.revenueTotal = 100
          /\ r.pnl.netProfit = 100
          /\ r.balanceSheet.totals.assetTotal = 100

\* a range with revenue and an expense, and a range holding one sale only
C5_Witness ==
    /\ \E range \in Ranges :
          /\ ReportsOf(range).pnl.revenueTotal > 0
          /\ ReportsOf(range).pnl.expenseTotal > 0
    /\ \E range \in Ranges, x \in 1..MaxAmount :
          /\ Len(InRangeEntries(range)) = 1
          /\ IsSaleOf(InRangeEntries(range)[1], accounts, x)

---------------------------------------------------------------------------
(* C6: in the Balance Sheet of buildReports each Asset account has its     *)
(* balance as amount, each Liability and Equity account the negated        *)
(* balance, every current account of the three types appears exactly once, *)
(* in its own section, and the three totals are the sums of the amounts.   *)

SectionOf(sheet, type) ==
    CASE type = "Asset" -> sheet.assets
      [] type = "Liability" -> sheet.liabilities
      [] type = "Equity" -> sheet.equity
      [] OTHER -> <<>>

Occurrences(items, acc) == Cardinality({k \in 1..Len(items) : items[k].account = acc})

SheetTypes == {"Asset", "Liability", "Equity"}

C6_BalanceSheet ==
    \A range \in Ranges :
        LET sheet == ReportsOf(range).balanceSheet
            entries == InRangeEntries(range)
        IN /\ ItemsMatch(sheet.assets, accounts, "Asset", 1, entries)
           /\ ItemsMatch(sheet.liabilities, accounts, "Liability", -1, entries)
           /\ ItemsMatch(sheet.equity, accounts, "Equity", -1, entries)
           /\ \A i \in 1..Len(accounts), type \in SheetTypes :
                 Occurrences(SectionOf(sheet, type), accounts[i])
                     = IF accounts[i].type = type THEN 1 ELSE 0
           /\ sheet.totals.assetTotal
                = SetSum(TypeIds(accounts, "Asset"),
                         [id \in TypeIds(accounts, "Asset") |-> NetOf(entries, id)])
           /\ sheet.totals.liabilityTotal
                = SetSum(TypeIds(accounts, "Liability"),
                         [id \in TypeIds(accounts, "Liability") |-> -NetOf(entries, id)])
           /\ sheet.totals.equityTotal
                = SetSum(TypeIds(accounts, "Equity"),
                         [id \in TypeIds(accounts, "Equity") |-> -NetOf(entries, id)])

\* an equity account and an asset account with amounts; two asset accounts
C6_Witness ==
    \/ \E range \in Ranges :
          /\ ReportsOf(range).balanceSheet.totals.equityTotal > 0
          /\ ReportsOf(range).balanceSheet.totals.assetTotal > 0
          /\ Len(ReportsOf(range).balanceSheet.assets) = 1
          /\ Len(ReportsOf(range).balanceSheet.equity) = 1
          /\ Len(InRangeEntries(range)) = 2

---------------------------------------------------------------------------
(* C7: the trial balance has one line per current account, in order, with  *)
(* debit = max(balance, 0) and credit = max(-balance, 0): both are         *)
(* non-negative, at most one is non-zero and debit - credit = balance.     *)

Max(a, b) == IF a >= b THEN a ELSE b

C7_TrialBalanceLines ==
    \A range \in Ranges :
        LET lines == ReportsOf(range).trialBalance.lines
            entries == InRangeEntries(range)
        IN /\ Len(lines) = Len(accounts)
           /\ \A i \in 1..Len(lines) :
                 LET balance == NetOf(entries, accounts[i].id)
                 IN /\ lines[i].account = accounts[i]
                    /\ lines[i].debit = Max(balance, 0)
                    /\ lines[i].credit = Max(-balance, 0)
                    /\ lines[i].debit - lines[i].credit = balance
                    /\ lines[i].debit >= 0 /\ lines[i].credit >= 0
                    /\ lines[i].debit = 0 \/ lines[i].credit = 0

\* a trial balance with a debit line, a credit line and a zero line
C7_Witness ==
    \E range \in Ranges :
        LET lines == ReportsOf(range).trialBalance.lines
        IN /\ \E i \in 1..Len(lines) : lines[i].debit > 0
           /\ \E i \in 1..Len(lines) : lines[i].credit > 0
           /\ \E i \in 1..Len(lines) : lines[i].debit = 0 /\ lines[i].credit = 0

---------------------------------------------------------------------------
(* C8: buildLedgerEntries has one row per line that references the account *)
(* in an entry dated within the range, by ascending entry date, entries of *)
(* equal date in their original order and lines in document order; each    *)
(* row's balance is the previous row's balance (0 before the first) plus   *)
(* the line's debit - credit.  Postings (100,0), (0,40), (0,10) on         *)
(* increasing dates give the balances 100, 60, 50.                         *)

\* the entries of each date from `date` on, date by date, in the given order
RECURSIVE ByDateFrom(_, _, _)
ByDateFrom(entries, date, last) ==
    IF date > last THEN <<>>
    ELSE LET OnDate(entry) == entry.date = date
         IN SelectSeq(entries, OnDate) \o ByDateFrom(entries, date + 1, last)

\* the lines of `entries` that reference `id`, entry by entry, paired with the date
RECURSIVE PostingsOf(_, _)
PostingsOf(entries, id) ==
    IF entries = <<>> THEN <<>>
    ELSE LET Hits(line) == line.accountId = id
             hits == SelectSeq(entries[1].lines, Hits)
         IN [j \in 1..Len(hits) |->
                [date |-> entries[1].date, debit |-> hits[j].debit, credit |-> hits[j].credit]]
            \o PostingsOf(Tail(entries), id)

ExpectedPostings(entries, id, fromDate, toDate) ==
    PostingsOf(ByDateFrom(entries, fromDate, toDate), id)

LedgerAsExpected(ledger, entries, id, fromDate, toDate) ==
    LET expected == ExpectedPostings(entries, id, fromDate, toDate)
    IN /\ Len(ledger) = Len(expected)
       /\ \A k \in 1..Len(ledger) :
             /\ ledger[k].accountId = id
             /\ ledger[k].date = expected[k].date
             /\ ledger[k].debit = expected[k].debit
             /\ ledger[k].credit = expected[k].credit
             /\ ledger[k].balance
                  = (IF k = 1 THEN 0 ELSE ledger[k - 1].balance)
                    + expected[k].debit - expected[k].credit

ExampleLedger ==
    << [date |-> 1,
        lines |-> << [accountId |-> 1, debit |-> 100, credit |-> 0],
                     [accountId |-> 2, debit |-> 0, credit |-> 100] >>],
       [date |-> 2,
        lines |-> << [accountId |-> 2, debit |-> 40, credit |-> 0],
                     [accountId |-> 1, debit |-> 0, credit |-> 40] >>],
       [date |-> 3,
        lines |-> << [accountId |-> 1, debit |-> 0, credit |-> 10],
                     [accountId |-> 2, debit |-> 10, credit |-> 0] >>] >>

Balances(ledger) == [k \in 1..Len(ledger) |-> ledger[k].balance]

C8_LedgerRunningBalance ==
    /\ \A range \in Ranges, i \in 1..Len(accounts) :
          LedgerAsExpected(
              buildLedgerEntries(journalEntries, accounts[i], range[1], range[2]),
              journalEntries, accounts[i].id, range[1], range[2])
    /\ Balances(buildLedgerEntries(ExampleLedger, ExampleAccounts[1], 1, 3)) = <<100, 60, 50>>
    /\ \A first, second, third \in 1..3 :
          LET shuffled == [k \in 1..3 |-> ExampleLedger[<<first, second, third>>[k]]]
          IN {first, second, third} = 1..3 =>
                Balances(buildLedgerEntries(shuffled, ExampleAccounts[1], 1, 3))
                    = <<100, 60, 50>>

\* a ledger of at least three rows built from entries stored out of date order
C8_Witness ==
    /\ Len(journalEntries) = 2
    /\ journalEntries[1].date > journalEntries[2].date
    /\ \E i \in 1..Len(accounts) :
          Len(buildLedgerEntries(journalEntries, accounts[i], 1, MaxDate)) >= 3

---------------------------------------------------------------------------
(* C9: with an account deleted that stored lines still reference,          *)
(* buildReports still builds every report for every date range, the        *)
(* account's amounts are in no line and no total of the reports, and the   *)
(* journal listing still shows each such line, with its amounts, under the *)
(* label "Account removed".                                                *)

Orphans == ReferencedIds(journalEntries) \ AccountIds(accounts)

WithoutOrphanLines(entries, accs) ==
    LET Known(line) == line.accountId \in AccountIds(accs)
    IN [i \in 1..Len(entries) |->
           [entries[i] EXCEPT !.lines = SelectSeq(entries[i].lines, Known)]]

ReportAccounts(r) ==
    {r.pnl.revenueAccounts[k].account.id : k \in 1..Len(r.pnl.revenueAccounts)}
    \cup {r.pnl.expenseAccounts[k].account.id : k \in 1..Len(r.pnl.expenseAccounts)}
    \cup {r.balanceSheet.assets[k].account.id : k \in 1..Len(r.balanceSheet.assets)}
    \cup {r.balanceSheet.liabilities[k].account.id : k \in 1..Len(r.balanceSheet.liabilities)}
    \cup {r.balanceSheet.equity[k].account.id : k \in 1..Len(r.balanceSheet.equity)}
    \cup {r.trialBalance.lines[k].account.id : k \in 1..Len(r.trialBalance.lines)}

C9_OrphanedAccount ==
    Orphans # {} =>
        /\ \A range \in Ranges :
              /\ ReportsOf(range)
                   = buildReports(WithoutOrphanLines(journalEntries, accounts), accounts,
                                  range[1], range[2])
              /\ ReportAccounts(ReportsOf(range)) \cap Orphans = {}
        /\ LET listing == journalListing(journalEntries, accounts, NoDate, NoDate)
           IN /\ Len(listing) = Len(journalEntries)
              /\ \A i \in 1..Len(journalEntries) :
                    /\ Len(listing[i].lines) = Len(journalEntries[i].lines)
                    /\ \A j \in 1..Len(journalEntries[i].lines) :
                          LET line == journalEntries[i].lines[j]
                              shown == listing[i].lines[j]
                          IN line.accountId \in Orphans =>
                                /\ shown.label = "Account removed"
                                /\ line.debit > 0 => shown.debitShown = Text(line.debit)
                                /\ line.credit > 0 => shown.creditShown = Text(line.credit)

\* a deleted account is still referenced by a line with an amount, and the
\* reports differ from those of the same entries before the deletion
C9_Witness ==
    /\ Orphans # {}
    /\ \E p \in LinePositions(journalEntries) :
          /\ LineAt(journalEntries, p).accountId \in Orphans
          /\ LineAt(journalEntries, p).credit > 0
    /\ \E range \in Ranges :
          ReportsOf(range).trialBalance.totalDebit
              # ReportsOf(range).trialBalance.totalCredit

---------------------------------------------------------------------------
(* C10: a submission that fails validation starts no store call and        *)
(* changes no stored record, sets an error message and leaves the draft    *)
(* as it was: handleEntrySubmit with totals 0.01 or more apart or a line   *)
(* without an account, handleSubmit of the invoice builder with no         *)
(* customer, a line without an inventory item or a subtotal <= 0, and      *)
(* handleAccountSubmit with a blank name.  Conversely a store call is      *)
(* started, or an account written, only from a draft that is valid.        *)

EntryDraftInvalid ==
    \/ Abs(debitTotal(entryForm) - creditTotal(entryForm)) >= Tolerance
    \/ \E i \in 1..Len(entryForm.lines) : entryForm.lines[i].accountId = NoId

InvoiceDraftInvalid ==
    \/ draft.customerId = NoId
    \/ \E i \in 1..Len(draft.lines) : draft.lines[i].inventoryId = NoId
    \/ computeTotals(draft.lines, inventoryItems).subtotal <= 0

AccountDraftInvalid == Trim(accountForm.name) = ""

NoStoreCall ==
    /\ UNCHANGED <<storeVars, salesVars>>
    /\ pendingEntry' = pendingEntry
    /\ pendingInvoice' = pendingInvoice

C10_FailedValidationWritesNothing ==
    [][ /\ (handleEntrySubmit /\ EntryDraftInvalid) =>
              (NoStoreCall /\ entryError' # Null /\ entryForm' = entryForm)
        /\ (handleSubmit /\ InvoiceDraftInvalid) =>
              (NoStoreCall /\ error' # Null /\ draft' = draft)
        /\ (handleAccountSubmit /\ AccountDraftInvalid) =>
              (/\ NoStoreCall
               /\ accountError' # Null
               /\ accountForm' = accountForm
               /\ editingAccountId' = editingAccountId)
        /\ (pendingEntry = <<>> /\ pendingEntry' # <<>>) => ~EntryDraftInvalid
        /\ (pendingInvoice = <<>> /\ pendingInvoice' # <<>>) => ~InvoiceDraftInvalid
        /\ (accounts' # accounts \/ nextAccountId' # nextAccountId) => ~AccountDraftInvalid
      ]_vars

\* with an invoice stored, a draft that has a customer and an item but no
\* positive subtotal was submitted: the error is shown, one invoice is stored
C10_Witness ==
    /\ activeModule = "invoicing"
    /\ error = "Invoice must contain at least one billable line."
    /\ draft.customerId # NoId
    /\ draft.lines[1].inventoryId # NoId
    /\ computeTotals(draft.lines, inventoryItems).subtotal < 0
    /\ Len(invoices) = 1
    /\ pendingInvoice = <<>>

---------------------------------------------------------------------------
(* C11: over the draft lines with a non-zero, parsable quantity,            *)
(* computeTotals returns subtotal = sum of the taxable amounts             *)
(* (quantity*rate less its discount percentage), discountTotal = sum of    *)
(* the discount amounts, taxTotal = sum of taxable*taxRate/100 and         *)
(* total = subtotal + taxTotal.  Quantity 2, unit price 50, discount 10,   *)
(* tax rate 18 give taxable 90, discount 10, tax 16.2, line total 106.2.   *)
(* All amounts are multiplied by PercentScale.                             *)

BillableLines(lines) ==
    {i \in 1..Len(lines) :
        /\ lines[i].quantity # EmptyText
        /\ lines[i].quantity # Unparsable
        /\ lines[i].quantity[1] # 0}

LineBase(line, items) == line.quantity[1] * LineRate(line, items)
LineDiscountAmount(line, items) == LineBase(line, items) * ParseOrZero(line.discount) * 100
LineTaxable(line, items) == LineBase(line, items) * PercentScale - LineDiscountAmount(line, items)
\* taxable * taxRate / 100
LineTaxAmount(line, items) ==
    (LineTaxable(line, items) * ParseOrZero(line.taxRate)) \div 100

ExampleInvoiceLine ==
    [inventoryId |-> NoId, quantity |-> Text(2), unitPrice |-> Text(50),
     discount |-> Text(10), taxRate |-> Text(18)]

C11_InvoiceTotals ==
    /\ LET lines == draft.lines
           billable == BillableLines(lines)
       IN /\ totals.subtotal
                = SetSum(billable, [i \in billable |-> LineTaxable(lines[i], inventoryItems)])
          /\ totals.discountTotal
                = SetSum(billable, [i \in billable |-> LineDiscountAmount(lines[i], inventoryItems)])
          /\ totals.taxTotal
                = SetSum(billable, [i \in billable |-> LineTaxAmount(lines[i], inventoryItems)])
          /\ totals.total = totals.subtotal + totals.taxTotal
    /\ computeTotals(<<ExampleInvoiceLine>>, <<>>)
          = [subtotal |-> 90 * PercentScale, discountTotal |-> 10 * PercentScale,
             taxTotal |-> 162 * (PercentScale \div 10),
             total |-> 1062 * (PercentScale \div 10)]
    /\ calculateLineTotal(2, 50, 10, 18) = 1062 * (PercentScale \div 10)

\* two billable lines, one at quantity 2, price 50, discount 10, tax 18 and
\* one priced by its inventory item
C11_Witness ==
    /\ Len(draft.lines) = 2
    /\ draft.lines[1] = [ExampleInvoiceLine EXCEPT !.inventoryId = 1]
    /\ draft.lines[2].quantity = Text(2)
    /\ draft.lines[2].unitPrice = EmptyText
    /\ draft.lines[2].inventoryId = 1
    /\ totals.taxTotal > 162 * (PercentScale \div 10)

---------------------------------------------------------------------------
(* C12: a draft line whose quantity is zero, empty or not parsable adds    *)
(* nothing to any total: the totals are those of the draft without such    *)
(* lines, and the remaining lines are all counted.                         *)

WithoutSkippedLines(lines) ==
    LET Counted(line) == line.quantity \notin {EmptyText, Text(0), Unparsable}
    IN SelectSeq(lines, Counted)

ZeroTotals == [subtotal |-> 0, discountTotal |-> 0, taxTotal |-> 0, total |-> 0]

C12_SkippedLinesAddNothing ==
    /\ totals = computeTotals(WithoutSkippedLines(draft.lines), inventoryItems)
    /\ WithoutSkippedLines(draft.lines) = <<>> => totals = ZeroTotals
    /\ \A k \in {"subtotal", "discountTotal", "taxTotal", "total"} : totals[k] \in Int

\* a line with an unparsable quantity and a price, before a billable line
C12_Witness ==
    /\ Len(draft.lines) = 2
    /\ draft.lines[1].quantity = Unparsable
    /\ draft.lines[1].unitPrice = Text(50)
    /\ draft.lines[2].quantity = Text(2)
    /\ totals.subtotal > 0

---------------------------------------------------------------------------
(* C13: the dashboard summary margin is profit/revenue*100 whenever the    *)
(* total revenue is non-zero and exactly 0 whenever it is 0, whatever the  *)
(* total expense; it is never the result of a division by zero.            *)

C13_MarginZeroGuard ==
    LET summary == metrics.summary
    IN /\ summary.margin.den # 0
       /\ summary.revenue # 0 =>
              summary.margin.num * summary.revenue
                  = summary.profit * 100 * summary.margin.den
       /\ summary.revenue = 0 => summary.margin.num = 0

\* no revenue and an expense
C13_Witness ==
    /\ metrics.summary.revenue = 0
    /\ metrics.summary.expense > 0
    /\ Len(journalEntries) > 1

---------------------------------------------------------------------------
(* C14: the date-range filter of buildReports and buildLedgerEntries keeps *)
(* exactly the entries with fromDate <= date <= toDate, in their order;    *)
(* filtering its result again with the same bounds gives the same entries; *)
(* and neither the filter nor the sort that follows it changes the content *)
(* or the order of the journalEntries array passed in.                     *)

\* the elements of `entries` at the positions in `positions`, in position order
RECURSIVE AtPositions(_, _, _)
AtPositions(entries, positions, from) ==
    IF from > Len(entries) THEN <<>>
    ELSE (IF from \in positions THEN <<entries[from]>> ELSE <<>>)
         \o AtPositions(entries, positions, from + 1)

KeptPositions(entries, range) ==
    {i \in 1..Len(entries) : range[1] <= entries[i].date /\ entries[i].date <= range[2]}

C14_DateFilter ==
    \A range \in Ranges :
        LET kept == reportArrays(journalEntries, range[1], range[2]).filteredEntries
            ledger == ledgerArrays(journalEntries, range[1], range[2])
        IN /\ kept = AtPositions(journalEntries, KeptPositions(journalEntries, range), 1)
           /\ reportArrays(kept, range[1], range[2]).filteredEntries = kept
           /\ reportArrays(journalEntries, range[1], range[2]).entries = journalEntries
           /\ ledger.entries = journalEntries
           /\ Len(ledger.relevantEntries) = Len(kept)
           /\ ledgerArrays(ledger.relevantEntries, range[1], range[2]).relevantEntries
                 = ledger.relevantEntries

\* stored out of date order, one entry on the last day of a range, one after it
C14_Witness ==
    /\ Len(journalEntries) = 2
    /\ journalEntries[1].date > journalEntries[2].date
    /\ \E range \in Ranges :
          /\ journalEntries[2].date = range[2]
          /\ journalEntries[1].date > range[2]
          /\ Len(FilterByRange(journalEntries, range[1], range[2])) = 1
    /\ \E range \in Ranges :
          ledgerArrays(journalEntries, range[1], range[2]).relevantEntries
              = <<journalEntries[2], journalEntries[1]>>

---------------------------------------------------------------------------
(* C15: with no journal entry in the selected range every report total     *)
(* (revenueTotal, expenseTotal, netProfit, assetTotal, liabilityTotal,     *)
(* equityTotal, totalDebit, totalCredit) is zero, the ledger of every      *)
(* account is empty, and the P&L, Balance Sheet and Trial Balance hold one *)
(* line per current account of the section, every amount of it zero.       *)

AllZero(amounts) == \A k \in 1..Len(amounts) : amounts[k] = 0

C15_ZeroEntries ==
    \A range \in Ranges :
        KeptPositions(journalEntries, range) = {} =>
            LET r == ReportsOf(range)
            IN /\ r.pnl.revenueTotal = 0 /\ r.pnl.expenseTotal = 0
               /\ r.pnl.netProfit = 0 /\ r.pnl.grossProfit = 0
               /\ r.balanceSheet.totals.assetTotal = 0
               /\ r.balanceSheet.totals.liabilityTotal = 0
               /\ r.balanceSheet.totals.equityTotal = 0
               /\ r.trialBalance.totalDebit = 0 /\ r.trialBalance.totalCredit = 0
               /\ Len(r.pnl.revenueAccounts) = Len(OfType(accounts, "Revenue"))
               /\ Len(r.pnl.expenseAccounts) = Len(OfType(accounts, "Expense"))
               /\ Len(r.balanceSheet.assets) = Len(OfType(accounts, "Asset"))
               /\ Len(r.balanceSheet.liabilities) = Len(OfType(accounts, "Liability"))
               /\ Len(r.balanceSheet.equity) = Len(OfType(accounts, "Equity"))
               /\ Len(r.trialBalance.lines) = Len(accounts)
               /\ AllZero(Amounts(r.pnl.revenueAccounts))
               /\ AllZero(Amounts(r.pnl.expenseAccounts))
               /\ AllZero(Amounts(r.balanceSheet.assets))
               /\ AllZero(Amounts(r.balanceSheet.liabilities))
               /\ AllZero(Amounts(r.balanceSheet.equity))
               /\ \A k \in 1..Len(r.trialBalance.lines) :
                     r.trialBalance.lines[k].debit = 0 /\ r.trialBalance.lines[k].credit = 0
               /\ \A i \in 1..Len(accounts) :
                     buildLedgerEntries(journalEntries, accounts[i], range[1], range[2]) = <<>>

\* the claim as stated: with no entry in the range every line list is empty
C15_LineListsEmpty ==
    \A range \in Ranges :
        KeptPositions(journalEntries, range) = {} =>
            LET r == ReportsOf(range)
            IN /\ r.pnl.revenueAccounts = <<>> /\ r.pnl.expenseAccounts = <<>>
               /\ r.balanceSheet.assets = <<>> /\ r.balanceSheet.liabilities = <<>>
               /\ r.balanceSheet.equity = <<>>
               /\ r.trialBalance.lines = <<>>
               /\ \A i \in 1..Len(accounts) :
                     buildLedgerEntries(journalEntries, accounts[i], range[1], range[2]) = <<>>

\* entries are stored, all of them outside some range, and a user account exists
C15_Witness ==
    /\ Len(journalEntries) >= 1
    /\ Len(accounts) >= 3
    /\ \E range \in Ranges :
          /\ range[1] <= range[2]
          /\ KeptPositions(journalEntries, range) = {}
          /\ ReportsOf(range).trialBalance.totalDebit = 0
          /\ Len(ReportsOf(range).trialBalance.lines) >= 3

---------------------------------------------------------------------------
(* C16: no add, edit or delete of the Journal module's account form and    *)
(* accounts table removes an account whose isSystem flag is true or clears *)
(* its flag, and every account a step adds has isSystem false.             *)

IdsOf(accs) == {accs[i].id : i \in 1..Len(accs)}
SystemIds(accs) == {accs[i].id : i \in {k \in 1..Len(accs) : accs[k].isSystem}}

C16_SystemAccountsKept ==
    [][/\ SystemIds(accounts) \subseteq SystemIds(accounts')
       /\ SystemIds(accounts') \subseteq IdsOf(accounts)]_vars

\* an account was added through the form and deleted again; the seeds remain
C16_Witness ==
    /\ activeModule = "journal"
    /\ nextAccountId > Len(SeedAccounts) + 1
    /\ IdsOf(accounts) = IdsOf(SeedAccounts)
    /\ SystemIds(accounts) = IdsOf(SeedAccounts)

---------------------------------------------------------------------------
(* C17: an account's type never changes after the account is created: no   *)
(* step leaves an account of the store with a type other than the one it   *)
(* had before the step.                                                    *)

C17_TypeNeverChanges ==
    [][\A i \in 1..Len(accounts), j \in 1..Len(accounts') :
          accounts[i].id = accounts'[j].id => accounts'[j].type = accounts[i].type]_vars

---------------------------------------------------------------------------
(* C18: every journal line handleEntrySubmit passes to addJournalEntry,    *)
(* and so every stored line, has debit >= 0 and credit >= 0.               *)

NonNegativeLines(entry) ==
    \A j \in 1..Len(entry.lines) : entry.lines[j].debit >= 0 /\ entry.lines[j].credit >= 0

---------------------------------------------------------------------------
(* C19: buildDashboardMetrics adds, for every line of every entry, credit  *)
(* - debit to revenue when the line's account is a current Revenue account *)
(* and debit - credit to expense when it is a current Expense account,     *)
(* into the bucket of the entry's month and into the summary; the summary  *)
(* revenue and expense are the sums of the monthly ones, and every bucket  *)
(* and the summary have profit = revenue - expense.                        *)

\* the lines of the entries of month `key` whose account is in `ids`
MonthLines(entries, key, ids) ==
    {p \in LinePositions(entries) :
        /\ monthKey(entries[p[1]].date) = key
        /\ LineAt(entries, p).accountId \in ids}

MonthRevenue(entries, accs, key) ==
    LET hits == MonthLines(entries, key, TypeIds(accs, "Revenue"))
    IN SetSum(hits, [p \in hits |-> LineAt(entries, p).credit - LineAt(entries, p).debit])

MonthExpense(entries, accs, key) ==
    LET hits == MonthLines(entries, key, TypeIds(accs, "Expense"))
    IN SetSum(hits, [p \in hits |-> LineAt(entries, p).debit - LineAt(entries, p).credit])

MonthsOf(entries) == {monthKey(entries[i].date) : i \in 1..Len(entries)}

C19_DashboardSums ==
    LET monthly == metrics.monthly
        summary == metrics.summary
    IN /\ \A key \in MonthsOf(journalEntries) :
             \E k \in 1..Len(monthly) :
                /\ monthly[k].label = key
                /\ monthly[k].revenue = MonthRevenue(journalEntries, accounts, key)
                /\ monthly[k].expense = MonthExpense(journalEntries, accounts, key)
       /\ summary.revenue = SumSeq([k \in 1..Len(monthly) |-> monthly[k].revenue])
       /\ summary.expense = SumSeq([k \in 1..Len(monthly) |-> monthly[k].expense])
       /\ summary.profit = summary.revenue - summary.expense
       /\ \A k \in 1..Len(monthly) :
             monthly[k].profit = monthly[k].revenue - monthly[k].expense

\* two sales in one month, an expense in it, a sale in another month
C19_Witness ==
    /\ Len(metrics.monthly) = 2
    /\ \E i, j \in 1..Len(journalEntries) :
          /\ i # j
          /\ journalEntries[i].date = 1 /\ journalEntries[j].date = 1
    /\ metrics.monthly[1].revenue > 2
    /\ metrics.monthly[1].expense > 0
    /\ metrics.monthly[2].revenue > 0
    /\ metrics.summary.profit = metrics.monthly[1].profit + metrics.monthly[2].profit

---------------------------------------------------------------------------
(* C20: the monthly buckets come in strictly ascending month-key order,    *)
(* one per distinct month of the entries; recentEntries holds min(8, n) of *)
(* the entries in descending date order and no entry left out of it has a  *)
(* later date than one in it; the entries array passed in is not reordered *)

CountOf(entries, entry) == Cardinality({i \in 1..Len(entries) : entries[i] = entry})

RangeOf(entries) == {entries[i] : i \in 1..Len(entries)}

C20_MonthlyAndRecentOrder ==
    LET monthly == metrics.monthly
        recent == metrics.recentEntries
        n == Len(journalEntries)
    IN /\ \A k \in 1..Len(monthly) - 1 : monthly[k].label < monthly[k + 1].label
       /\ {monthly[k].label : k \in 1..Len(monthly)} = MonthsOf(journalEntries)
       /\ Len(recent) = (IF n < 8 THEN n ELSE 8)
       /\ \A k \in 1..Len(recent) - 1 : recent[k].date >= recent[k + 1].date
       /\ \A entry \in RangeOf(recent) :
             CountOf(recent, entry) <= CountOf(journalEntries, entry)
       /\ \A out \in RangeOf(journalEntries) :
             CountOf(recent, out) < CountOf(journalEntries, out) =>
                 \A kept \in RangeOf(recent) : out.date <= kept.date
       /\ dashboardArrays(journalEntries).entries = journalEntries

\* nine entries stored oldest first, two months: the oldest entry is left out
C20_Witness ==
    /\ Len(journalEntries) = 9
    /\ Len(metrics.recentEntries) = 8
    /\ Len(metrics.monthly) = 2
    /\ journalEntries[1].date = 1
    /\ \A i \in 2..9 : journalEntries[i].date > 1
    /\ journalEntries[9].date = 3
    /\ metrics.recentEntries[1].date = 3

---------------------------------------------------------------------------
(* C21: a stock adjustment with a non-zero delta d for item i and          *)
(* warehouse w changes stockByWarehouse[w] of i by exactly d, below zero   *)
(* too, and appends exactly one ledger entry with quantityDelta d; no step *)
(* modifies or removes a ledger entry; and with a delta that is zero,      *)
(* empty or unparsable nothing is written: a step that writes to the       *)
(* ledger or to a stock is the adjustment of a parsable non-zero text.     *)

StockOf(items, inventoryId, warehouseId) ==
    IF InventoryById(items, inventoryId) = <<>> THEN 0
    ELSE MapGet(InventoryById(items, inventoryId)[1].stockByWarehouse, warehouseId)

StockKeys == (1..MaxItems) \X (1..MaxWarehouses)

C21_StockAdjustment ==
    [][/\ Len(inventoryLedger') \in {Len(inventoryLedger), Len(inventoryLedger) + 1}
       /\ SubSeq(inventoryLedger', 1, Len(inventoryLedger)) = inventoryLedger
       /\ inventoryLedger' = inventoryLedger =>
             \A i \in 1..Len(inventoryItems) :
                inventoryItems'[i].stockByWarehouse = inventoryItems[i].stockByWarehouse
       /\ inventoryLedger' # inventoryLedger =>
             LET added == inventoryLedger'[Len(inventoryLedger')]
                 key == <<added.inventoryId, added.warehouseId>>
                 text == AdjustmentText(adjustments, key)
             IN /\ text # EmptyText /\ ~IsNaNText(text)
                /\ added.quantityDelta = text[1]
                /\ added.quantityDelta # 0
                /\ \A other \in StockKeys :
                      StockOf(inventoryItems', other[1], other[2])
                          = StockOf(inventoryItems, other[1], other[2])
                            + (IF other = key THEN added.quantityDelta ELSE 0)]_vars

\* two adjustments recorded, a stock below zero, an unparsable delta typed
C21_Witness ==
    /\ Len(inventoryLedger) = 2
    /\ \E key \in StockKeys : StockOf(inventoryItems, key[1], key[2]) < 0
    /\ \E key \in StockKeys : AdjustmentText(adjustments, key) \in {Text(0), Unparsable}

---------------------------------------------------------------------------
(* C22: after any sequence of debit and credit edits made through the      *)
(* change handlers of the journal form, no draft line has both a debit     *)
(* greater than 0 and a credit greater than 0.                             *)

C22_OneSidedDraftLines ==
    \A i \in 1..Len(entryForm.lines) :
        ~(LineDebit(entryForm.lines[i]) > 0 /\ LineCredit(entryForm.lines[i]) > 0)

\* a positive debit beside a cleared credit, and a negative credit kept beside
\* a positive debit
C22_Witness ==
    /\ entryForm.lines[1].debit = Text(1) /\ entryForm.lines[1].credit = EmptyText
    /\ entryForm.lines[2].debit = Text(1) /\ entryForm.lines[2].credit = Text(-1)

---------------------------------------------------------------------------
(* C23: for every account and date range the balance of the last row of    *)
(* buildLedgerEntries equals the balance computeAccountBalances gives the  *)
(* account over the entries of the range (0 when the ledger is empty), and *)
(* so equals debit - credit of the account's trial balance line.           *)

LastBalance(rows) == IF rows = <<>> THEN 0 ELSE rows[Len(rows)].balance

C23_LedgerAgreesWithBalances ==
    \A range \in Ranges :
        LET balances == computeAccountBalances(
                            FilterByRange(journalEntries, range[1], range[2]))
            lines == ReportsOf(range).trialBalance.lines
        IN \A i \in 1..Len(accounts) :
              LET rows == buildLedgerEntries(journalEntries, accounts[i], range[1], range[2])
              IN /\ LastBalance(rows) = MapGet(balances, accounts[i].id)
                 /\ lines[i].account = accounts[i]
                 /\ LastBalance(rows) = lines[i].debit - lines[i].credit

\* a ledger of two rows from entries stored out of date order, balance not zero
C23_Witness ==
    /\ Len(journalEntries) = 2
    /\ journalEntries[1].date > journalEntries[2].date
    /\ \E range \in Ranges, i \in 1..Len(accounts) :
          LET rows == buildLedgerEntries(journalEntries, accounts[i], range[1], range[2])
          IN /\ Len(rows) = 2
             /\ rows[2].balance # rows[2].debit - rows[2].credit
             /\ rows[2].balance # 0

---------------------------------------------------------------------------
(* C24: when the report date range contains every journal entry, the       *)
(* dashboard summary agrees with the P&L of buildReports over the same     *)
(* entries and accounts: summary.revenue = revenueTotal, summary.expense = *)
(* expenseTotal and summary.profit = netProfit.                            *)

ContainsAll(entries, fromDate, toDate) ==
    \A i \in 1..Len(entries) : fromDate <= entries[i].date /\ entries[i].date <= toDate

C24_DashboardAgreesWithPnl ==
    \A fromDate, toDate \in DashboardDates :
        ContainsAll(journalEntries, fromDate, toDate) =>
            LET pnl == buildReports(journalEntries, accounts, fromDate, toDate).pnl
            IN /\ metrics.summary.revenue = pnl.revenueTotal
               /\ metrics.summary.expense = pnl.expenseTotal
               /\ metrics.summary.profit = pnl.netProfit

\* sales and an expense posted, entries on the first and the last date
C24_Witness ==
    /\ metrics.summary.revenue > metrics.summary.expense
    /\ metrics.summary.expense > 0
    /\ \E i, j \in 1..Len(journalEntries) :
          journalEntries[i].date = 1 /\ journalEntries[j].date = MaxDashboardDate
    /\ buildReports(journalEntries, accounts, 1, MaxDashboardDate).pnl.netProfit > 0

---------------------------------------------------------------------------
(* C25: every invoice passed to addInvoice, and so every stored invoice,   *)
(* has a total equal to the sum over its own lines of                      *)
(* calculateLineTotal(quantity, unitPrice, discount, taxRate), the amount  *)
(* the PDF shows for the line, and a subtotal greater than 0.              *)

LineTotals(lines) ==
    SumSeq([k \in 1..Len(lines) |->
               calculateLineTotal(lines[k].quantity, lines[k].unitPrice,
                                  lines[k].discount, lines[k].taxRate)])

TotalOfOwnLines(invoice) ==
    /\ invoice.total = LineTotals(invoice.lines)
    /\ invoice.subtotal > 0

C25_TotalIsSumOfLineTotals ==
    /\ pendingInvoice # <<>> => TotalOfOwnLines(pendingInvoice[1].payload)
    /\ \A i \in 1..Len(invoices) : TotalOfOwnLines(invoices[i])

---------------------------------------------------------------------------
(* C26: whenever handleSubmit ends with an error message shown and the     *)
(* draft kept, no invoice has been added to the store by that submission:  *)
(* the call it was awaiting when it failed is addInvoice.                  *)

SubmissionFails ==
    /\ pendingInvoice # <<>>
    /\ pendingInvoice' = <<>>
    /\ error' # Null
    /\ draft' = draft

C26_FailedSubmissionAddsNothing ==
    [][SubmissionFails =>
          /\ pendingInvoice[1].awaiting = "addInvoice"
          /\ Len(invoices') = pendingInvoice[1].invoiceCount]_vars

---------------------------------------------------------------------------
(* C27: after any sequence of invoice creations and deletions, the invoice *)
(* number pre-filled in a fresh draft differs from the invoiceNumber of    *)
(* every invoice in the store.                                             *)

FreshDraft ==
    /\ activeModule = "invoicing"
    /\ pendingInvoice = <<>>
    /\ draft.lines = <<emptyDraftLine>>

C27_PrefilledNumberUnused ==
    FreshDraft => \A i \in 1..Len(invoices) : invoices[i].invoiceNumber # draft.invoiceNumber

---------------------------------------------------------------------------
(* C28: after any sequence of add-line, remove-line and submit operations  *)
(* the journal entry draft has at least 2 lines and the invoice draft at   *)
(* least 1 line; a remove request at the minimum cannot change the draft;  *)
(* every posted journal entry has at least 2 lines.                        *)

JournalDraftChanges(i) == handleRemoveLine(i) /\ entryForm' # entryForm

InvoiceDraftChanges(i) == removeLine(i) /\ draft' # draft

C28_DraftMinimumLines ==
    /\ Len(entryForm.lines) >= 2
    /\ Len(entryForm.lines) = 2 =>
          \A i \in 1..2 : ~ENABLED JournalDraftChanges(i)
    /\ activeModule = "invoicing" =>
          /\ Len(draft.lines) >= 1
          /\ Len(draft.lines) = 1 => ~ENABLED InvoiceDraftChanges(1)
    /\ \A k \in 1..Len(journalEntries) : Len(journalEntries[k].lines) >= 2

C28_Witness ==
    /\ activeModule = "invoicing"
    /\ Len(draft.lines) = 1
    /\ Len(entryForm.lines) = 2
    /\ \E k \in 1..Len(journalEntries) : Len(journalEntries[k].lines) = 3
    /\ \E k \in 1..Len(invoices) : Len(invoices[k].lines) = 2

---------------------------------------------------------------------------
(* C29: isSubmitting is true exactly while an addJournalEntry call started *)
(* by handleEntrySubmit is pending.  It is raised by the step that starts  *)
(* the call; while it is true no second call is started; the step that     *)
(* settles the call lowers it, and either stores the entry and resets the  *)
(* draft to two empty lines or shows an error and keeps the draft.         *)

PostPending == pendingEntry # <<>>

PostStarts == ~PostPending /\ PostPending'

PostSettles == PostPending /\ ~PostPending'

PostResolves ==
    /\ journalEntries' = Append(journalEntries, pendingEntry[1])
    /\ entryForm' = EmptyEntryForm
    /\ entryError' = entryError

PostRejects ==
    /\ journalEntries' = journalEntries
    /\ entryError' # Null
    /\ entryForm' = entryForm

---------------------------------------------------------------------------
(* C30: every inventory item saved through handleInventorySubmit, created  *)
(* or edited, has a quantity equal to the sum of its stockByWarehouse      *)
(* values, and an edit keeps the stock recorded for every warehouse other  *)
(* than the preferred one.                                                 *)

StockSum(item) ==
    SumSeq([w \in 1..MaxWarehouses |-> MapGet(item.stockByWarehouse, w)])

SavedPositions ==
    {i \in 1..Len(inventoryItems') :
        i > Len(inventoryItems) \/ inventoryItems'[i] # inventoryItems[i]}

KeepsOtherStock(before, after) ==
    \A w \in (1..MaxWarehouses) \ {after.preferredWarehouseId} :
        MapGet(after.stockByWarehouse, w) = MapGet(before.stockByWarehouse, w)

C30_QuantityIsStockSum ==
    [][inventoryLedger' = inventoryLedger =>
          \A i \in SavedPositions :
              /\ inventoryItems'[i].quantity = StockSum(inventoryItems'[i])
              /\ i <= Len(inventoryItems) =>
                    KeepsOtherStock(inventoryItems[i], inventoryItems'[i])]_vars

===========================================================================
